---- MODULE Spec2Model ----
(***************************************************************************)
(* GRASP: the agent loop (grasp/core.py generate), its task adapters       *)
(* (grasp/tasks) and the server runtime (grasp/server.py).                 *)
(*                                                                         *)
(* Python None is written as a value of the same shape as the non-None     *)
(* case (a string "null", a record with present = FALSE, an empty tuple),  *)
(* so that every field keeps one type.                                     *)
(***************************************************************************)
EXTENDS Integers, Sequences, FiniteSets, TLC

(***************************************************************************)
(* Bounds of the model.                                                    *)
(***************************************************************************)
\* largest config.max_steps a request is run with
MaxSteps == 3
\* largest config.max_feedbacks a request is run with
MaxFeedbacks == 1
\* longest conversation a client passes back as past
MaxPast == 4
\* config.max_connections of the server
MaxConnections == 1
\* clients that send requests to the server
NumClients == 2
\* events a generation yields for the server
GenLen == 3
\* worker threads of timed out /run requests that are still running
MaxAbandoned == 1
\* largest number of rows of a cea table
MaxRows == 2
\* largest number of columns of a cea table
MaxCols == 1
\* the clock stops at MaxTime seconds
MaxTime == 3
\* most assistant turns of a conversation that is serialized
MaxTurns == 2
\* largest max_notes of a notes configuration
MaxNotes == 2
\* largest max_note_length of a notes configuration
MaxNoteLength == 2

VARIABLES
    task,           \* generate: task
    cfg,            \* generate: config (max_steps, feedback, max_feedbacks, know_before_use)
    pc,             \* position of the generator
    messages,       \* generate: messages
    num_messages,   \* generate: num_messages
    known,          \* generate: known
    task_state,     \* generate: task_state (AnnotationState for cea)
    last_resp_hash, \* generate: last_resp_hash, << >> for None
    retries,        \* generate: retries
    error,          \* generate: error
    response,       \* outcome of the call_model in flight
    tc_idx,         \* index of the next tool call of the turn to dispatch
    should_stop,    \* generate: should_stop
    events,         \* events yielded so far
    model_calls,    \* number of call_model invocations of the main loop in this request
    past,           \* past_messages and past_known of the request
    wire,           \* the conversation as serialized for the API, and the API
    feedback_call,  \* what the latest step did with the model call of generate_feedback
    active_connections, \* server: active_connections
    handler,        \* per client: position of its /run or /live handler
    worker,         \* per client: position of the worker thread of its request
    generated,      \* per client: events the generator of its request has yielded
    queue,          \* per /live request: the asyncio.Queue between worker and handler
    stop_event,     \* per /live request: stop_event is set
    status,         \* per client: last HTTP status or WebSocket close code
    abandoned,      \* worker threads of /run requests that timed out, still running
    frames,         \* per /live request: the frames sent to the client
    cancel_at,      \* per /live request: frames sent when the cancel arrived, 0 for none
    late_calls,     \* per /live request: model calls started after the cancel arrived
    received,       \* per /live request: client frames received after the Request
    now,            \* time.perf_counter(), in seconds
    start_time,     \* per /live request: start_time
    last_active,    \* per /live connection: last_active
    next_poll       \* per /live connection: when the sleep of idle_checker ends

loopVars == <<task, cfg, pc, messages, num_messages, known, task_state,
              last_resp_hash, retries, error, response, tc_idx, should_stop,
              events, model_calls, past, wire, feedback_call>>

clockVars == <<now, start_time, last_active, next_poll>>

liveVars == <<frames, cancel_at, late_calls, received, clockVars>>

serverVars == <<active_connections, handler, worker, generated, queue, stop_event,
                status, abandoned, liveVars>>

vars == <<loopVars, serverVars>>

(***************************************************************************)
(* Data model (grasp/model.py).                                            *)
(***************************************************************************)
Null == "null"

\* an IRI as the model writes it: prefixed, full, or not an IRI at all
NoEntity == [form |-> "none", id |-> Null]
Entity(form, id) == [form |-> form, id |-> id]

NoArgs == [entity |-> NoEntity, row |-> 0, column |-> 0]

\* ToolCall(id, name, args, result=None); ids are fresh and never compared
ToolCall(name, args) == [name |-> name, args |-> args, result |-> Null]

\* Reasoning(id, content, summary, encrypted_content)
NoReasoning == [present |-> FALSE, content |-> Null, summary |-> Null, encrypted_content |-> Null]
Reasoning(content, summary) ==
    [present |-> TRUE, content |-> content, summary |-> summary, encrypted_content |-> Null]

\* Response(id, message, reasoning, tool_calls, usage)
Response(message, reasoning, tool_calls) ==
    [message |-> message, reasoning |-> reasoning, tool_calls |-> tool_calls]

NoResponse == Response(Null, NoReasoning, << >>)

\* Message(role, content): content is a str or a Response
TextMessage(role, content) == [role |-> role, is_response |-> FALSE, content |-> content, resp |-> NoResponse]
AssistantMessage(resp) == [role |-> "assistant", is_response |-> TRUE, content |-> Null, resp |-> resp]

\* Response.is_empty
IsEmpty(r) == r.message = Null /\ ~r.reasoning.present /\ Len(r.tool_calls) = 0

\* Response.has_reasoning_content
HasReasoningContent(r) ==
    r.reasoning.present /\ (r.reasoning.content # Null \/ r.reasoning.summary # Null)

\* Response.has_content
HasContent(r) == r.message # Null \/ HasReasoningContent(r)

\* sorted((tc.name, json.dumps(tc.args, sort_keys=True)) for tc in tool_calls):
\* the sorted list of pairs is the multiset of the pairs
SortedCalls(tcs) ==
    LET pairs == {<<tcs[i].name, tcs[i].args>> : i \in DOMAIN tcs}
    IN  [p \in pairs |-> Cardinality({i \in DOMAIN tcs : <<tcs[i].name, tcs[i].args>> = p})]

\* Response.hash
Hash(r) ==
    <<r.message,
      [present |-> r.reasoning.present, content |-> r.reasoning.content,
       summary |-> r.reasoning.summary, encrypted_content |-> r.reasoning.encrypted_content],
      SortedCalls(r.tool_calls)>>

\* the assertion of completions_api_messages / responses_api_messages:
\* every tool call of every Response has a result
SerializerAssertsHold(msgs) ==
    \A i \in DOMAIN msgs :
        msgs[i].is_response =>
            \A j \in DOMAIN msgs[i].resp.tool_calls : msgs[i].resp.tool_calls[j].result # Null

\* json.dumps(tc.args): the members of the object in the order of its keys
Dumps(args) ==
    <<<<"entity", args.entity>>, <<"row", args.row>>, <<"column", args.column>>>>

\* the value of key in a JSON text
Member(json, key) == json[CHOOSE i \in DOMAIN json : json[i][1] = key][2]

\* json.loads of the arguments of a tool call
Loads(json) ==
    [entity |-> Member(json, "entity"), row |-> Member(json, "row"),
     column |-> Member(json, "column")]

\* role of a str message on the wire: feedback is sent as user
WireRole(role) == IF role = "feedback" THEN "user" ELSE role

\* the tool-call stubs of an assistant message of the Completions API
Stubs(tcs) == [i \in DOMAIN tcs |-> [name |-> tcs[i].name, arguments |-> Dumps(tcs[i].args)]]

\* Completions serializer that sends the summary when there is no content
CompletionsApiMessage_Summary(m) ==
    IF ~m.is_response THEN <<[role |-> WireRole(m.role), content |-> m.content]>>
    ELSE <<[role |-> m.role, content |-> m.resp.message,
            has_reasoning_content |-> m.resp.reasoning.present,
            reasoning_content |-> IF m.resp.reasoning.content # Null
                                  THEN m.resp.reasoning.content
                                  ELSE m.resp.reasoning.summary,
            tool_calls |-> Stubs(m.resp.tool_calls)]>>
         \o [i \in DOMAIN m.resp.tool_calls |->
                [role |-> "tool", content |-> m.resp.tool_calls[i].result]]

\* completions_api_messages, one message: a str message as it is, a Response
\* as one assistant message with content, reasoning_content when there is a
\* reasoning, and tool-call stubs, followed by one tool message per result
CompletionsApiMessage(m) ==
    IF ~m.is_response THEN <<[role |-> WireRole(m.role), content |-> m.content]>>
    ELSE <<[role |-> m.role, content |-> m.resp.message,
            has_reasoning_content |-> m.resp.reasoning.present,
            reasoning_content |-> m.resp.reasoning.content,
            tool_calls |-> Stubs(m.resp.tool_calls)]>>
         \o [i \in DOMAIN m.resp.tool_calls |->
                [role |-> "tool", content |-> m.resp.tool_calls[i].result]]

\* the items of the tool calls of a Response in the Responses API: a call and
\* its output for each
CallItems(tcs) ==
    [i \in 1..(2 * Len(tcs)) |->
        IF i % 2 = 1
        THEN [type |-> "custom_tool_call", name |-> tcs[(i + 1) \div 2].name,
              input |-> Dumps(tcs[(i + 1) \div 2].args)]
        ELSE [type |-> "custom_tool_call_output", output |-> tcs[i \div 2].result]]

\* responses_api_messages, one message: a str message as it is, a Response as
\* a reasoning item when there is a reasoning, a message item when there is
\* a message, and the items of its tool calls
ResponsesApiMessage(m) ==
    IF ~m.is_response
    THEN <<[type |-> "message", role |-> WireRole(m.role), content |-> m.content]>>
    ELSE (IF m.resp.reasoning.present
          THEN <<[type |-> "reasoning",
                  content |-> IF m.resp.reasoning.content # Null
                              THEN <<m.resp.reasoning.content>> ELSE << >>,
                  summary |-> IF m.resp.reasoning.summary # Null
                              THEN <<m.resp.reasoning.summary>> ELSE << >>,
                  encrypted_content |-> m.resp.reasoning.encrypted_content]>>
          ELSE << >>)
         \o (IF m.resp.message # Null
             THEN <<[type |-> "message", role |-> m.role, content |-> m.resp.message]>>
             ELSE << >>)
         \o CallItems(m.resp.tool_calls)

\* the serializers loop over the messages and append what each one yields
RECURSIVE Flatten(_)
Flatten(groups) == IF groups = << >> THEN << >> ELSE Head(groups) \o Flatten(Tail(groups))

\* completions_api_messages
CompletionsApiMessages(msgs) == Flatten([i \in DOMAIN msgs |-> CompletionsApiMessage(msgs[i])])

\* responses_api_messages
ResponsesApiMessages(msgs) == Flatten([i \in DOMAIN msgs |-> ResponsesApiMessage(msgs[i])])

\* the items of the given type among those of one assistant turn
ItemsOf(items, type) == SelectSeq(items, LAMBDA x : x.type = type)

\* the assistant turn read back from its Completions message: what
\* from_completions_api takes from content, reasoning_content and tool_calls
FromCompletions(items) ==
    LET a == items[1]
    IN  Response(a.content,
                 IF a.has_reasoning_content
                 THEN [present |-> TRUE, content |-> a.reasoning_content,
                       summary |-> Null, encrypted_content |-> Null]
                 ELSE NoReasoning,
                 [i \in DOMAIN a.tool_calls |->
                     ToolCall(a.tool_calls[i].name, Loads(a.tool_calls[i].arguments))])

\* the assistant turn read back from its Responses items: what
\* from_responses_api takes from the reasoning, message and tool call items
FromResponses(items) ==
    LET rs == ItemsOf(items, "reasoning")
        ms == ItemsOf(items, "message")
        cs == ItemsOf(items, "custom_tool_call")
    IN  Response(IF ms = << >> THEN Null ELSE ms[1].content,
                 IF rs = << >> THEN NoReasoning
                 ELSE [present |-> TRUE,
                       content |-> IF rs[1].content = << >> THEN Null ELSE rs[1].content[1],
                       summary |-> IF rs[1].summary = << >> THEN Null ELSE rs[1].summary[1],
                       encrypted_content |-> rs[1].encrypted_content],
                 [i \in DOMAIN cs |-> ToolCall(cs[i].name, Loads(cs[i].input))])

\* nothing has been serialized
NoWire == [api |-> "none", msgs |-> << >>]

(***************************************************************************)
(* Task adapters (grasp/tasks).                                            *)
(***************************************************************************)
Tasks == {"sparql-qa", "general-qa", "cea"}

IRIs == {"a", "b"}

\* terminal tool predicate that lets an entity search end the loop of any task
TaskDone_SearchEnds(t, fn_name) ==
    fn_name \in {"answer", "cancel", "stop", "search_entities"}

\* task_done
TaskDone(t, fn_name) ==
    CASE t = "sparql-qa" -> fn_name \in {"answer", "cancel"}
      [] t = "general-qa" -> FALSE
      [] t = "cea" -> fn_name = "stop"
      [] t = "wikidata-query-logs" -> fn_name \in {"answer", "cancel"}
      [] t = "exploration" -> fn_name = "stop"

\* AnnotationState: table size, allowed rows and columns (all = no filter),
\* offset and the map from cell to annotation
NoFilter == [all |-> TRUE, set |-> {}]
Filter(s) == [all |-> FALSE, set |-> s]
\* the data rows of the tables: each row stands for its cells, row 1 is
\* written with surrounding blanks
RowText(i) == IF i = 1 THEN " r1 " ELSE "r" \o ToString(i)
Rows(height) == [i \in 1..height |-> RowText(i - 1)]

\* clean of Table.clean, " ".join(s.strip().split()), on those rows
Clean(row) == IF row = " r1 " THEN "r1" ELSE row

AnnotationState(height, width, rows, cols, offset) ==
    [height |-> height, width |-> width, rows |-> rows, cols |-> cols,
     offset |-> offset, annotations |-> << >>,
     data |-> [i \in 1..height |-> Clean(RowText(i - 1))]]

\* Table: the data rows (each row stands for its cells), the width of the
\* header, annotate_rows and annotate_columns
Table(data, width, rows, cols) == [data |-> data, width |-> width, rows |-> rows, cols |-> cols]

\* context_rows of the task arguments: None, or a number of rows
NoContext == [present |-> FALSE, rows |-> 0]
Context(n) == [present |-> TRUE, rows |-> n]

Least(ints) == CHOOSE i \in ints : \A k \in ints : i <= k
Greatest(ints) == CHOOSE i \in ints : \A k \in ints : k <= i

\* Table.trim: the table itself when the context covers it or all rows are
\* to be annotated, else the rows from min(annotate_rows) - context to
\* max(annotate_rows) + context, with annotate_rows shifted, and the index
\* of the first row kept; min() of an empty annotate_rows raises ValueError
Trim(table, context) ==
    IF context >= Len(table.data) \/ table.rows.all
    THEN [raised |-> FALSE, table |-> table, offset |-> 0]
    ELSE IF table.rows.set = {}
    THEN [raised |-> TRUE, table |-> table, offset |-> 0]
    ELSE LET start == Greatest({0, Least(table.rows.set) - context})
             end == Least({Len(table.data), Greatest(table.rows.set) + context + 1})
         IN  [raised |-> FALSE,
              table |-> [table EXCEPT !.data = SubSeq(table.data, start + 1, end),
                                      !.rows = Filter({r - start : r \in table.rows.set})],
              offset |-> start]

\* AnnotationState.__init__: the table is trimmed when context_rows is given,
\* then cleaned; raised when trim raises
NewAnnotationState(table, context_rows) ==
    LET trimmed == IF context_rows.present THEN Trim(table, context_rows.rows)
                   ELSE [raised |-> FALSE, table |-> table, offset |-> 0]
        kept == trimmed.table
    IN  [raised |-> trimmed.raised,
         state |-> [AnnotationState(Len(kept.data), kept.width, kept.rows, kept.cols,
                                    trimmed.offset)
                      EXCEPT !.data = [i \in DOMAIN kept.data |-> Clean(kept.data[i])]]]

NoState == AnnotationState(0, 0, NoFilter, NoFilter, 0)

\* bounds checks that admit the index one past the end
AnnotateError_OffByOne(state, row, column) ==
    IF row < 0 \/ row > state.height THEN "Row out of bounds"
    ELSE IF ~state.rows.all /\ row \notin state.rows.set THEN "Row must not be annotated"
    ELSE IF column < 0 \/ column > state.width THEN "Column out of bounds"
    ELSE IF ~state.cols.all /\ column \notin state.cols.set THEN "Column must not be annotated"
    ELSE ""

\* AnnotationState.annotate, the checks: "" when the cell may be written
AnnotateError(state, row, column) ==
    IF row < 0 \/ row >= state.height THEN "Row out of bounds"
    ELSE IF ~state.rows.all /\ row \notin state.rows.set THEN "Row must not be annotated"
    ELSE IF column < 0 \/ column >= state.width THEN "Column out of bounds"
    ELSE IF ~state.cols.all /\ column \notin state.cols.set THEN "Column must not be annotated"
    ELSE ""

\* self.annotations.pop((row, column), None)
Popped(annotations, cell) ==
    [c \in (DOMAIN annotations) \ {cell} |-> annotations[c]]

\* AnnotationState.annotate that keeps the annotation a cell already has
AnnotateUpdate_KeepsCurrent(state, row, column, annotation) ==
    IF annotation = NoEntity
    THEN [state EXCEPT !.annotations = Popped(state.annotations, <<row, column>>)]
    ELSE [state EXCEPT !.annotations =
             [c \in (DOMAIN state.annotations) \cup {<<row, column>>} |->
                 IF c \in DOMAIN state.annotations THEN state.annotations[c] ELSE annotation]]

\* AnnotationState.annotate, the update: annotation = NoEntity deletes
AnnotateUpdate(state, row, column, annotation) ==
    LET rest == Popped(state.annotations, <<row, column>>)
    IN  IF annotation = NoEntity
        THEN [state EXCEPT !.annotations = rest]
        ELSE [state EXCEPT !.annotations =
                 [c \in (DOMAIN rest) \cup {<<row, column>>} |->
                     IF c = <<row, column>> THEN annotation ELSE rest[c]]]

\* AnnotationState.get
Get(state, row, column) ==
    IF <<row, column>> \in DOMAIN state.annotations
    THEN state.annotations[<<row, column>>] ELSE NoEntity

\* the entity of an annotation as it is written into a result
EntityText(entity) == entity.form \o ":" \o entity.id

\* result of a handler: ok = FALSE when it raised
HandlerResult(ok, result, kn, state) ==
    [ok |-> ok, result |-> result, known |-> kn, state |-> state]

\* cea.annotate: prepare_annotation parses the entity into its identifier,
\* the know-before-use check, then state.annotate
CeaAnnotate(args, state, kn, know_before_use) ==
    IF args.entity.form \notin {"short", "full"}
    THEN HandlerResult(FALSE, "not a valid IRI", kn, state)
    ELSE IF know_before_use /\ args.entity.id \notin kn
    THEN HandlerResult(FALSE, "cannot be used without being known", kn, state)
    ELSE IF AnnotateError(state, args.row, args.column) # ""
    THEN HandlerResult(FALSE, AnnotateError(state, args.row, args.column), kn, state)
    ELSE HandlerResult(TRUE,
            IF Get(state, args.row, args.column) = NoEntity THEN "Annotated cell"
            ELSE "Updated annotation from " \o EntityText(Get(state, args.row, args.column)),
            kn, AnnotateUpdate(state, args.row, args.column, args.entity))

\* cea.delete
CeaDelete(args, state, kn) ==
    IF AnnotateError(state, args.row, args.column) # ""
    THEN HandlerResult(FALSE, AnnotateError(state, args.row, args.column), kn, state)
    ELSE IF Get(state, args.row, args.column) = NoEntity
    THEN HandlerResult(FALSE, "Cell is not annotated", kn,
                       AnnotateUpdate(state, args.row, args.column, NoEntity))
    ELSE HandlerResult(TRUE, "Deleted annotation", kn,
                       AnnotateUpdate(state, args.row, args.column, NoEntity))

\* cea.call_function
CeaCallFunction(c, fn_name, args, kn, state) ==
    CASE fn_name = "annotate" -> CeaAnnotate(args, state, kn, c.know_before_use)
      [] fn_name = "delete_annotation" -> CeaDelete(args, state, kn)
      [] fn_name = "show_annotations" -> HandlerResult(TRUE, "annotations", kn, state)
      [] fn_name = "stop" -> HandlerResult(TRUE, "Stopping", kn, state)
      [] OTHER -> HandlerResult(FALSE, "Unknown function", kn, state)

\* sparql_qa.call_function (no example index is loaded)
SparqlQaCallFunction(c, fn_name, args, kn, state) ==
    CASE fn_name = "answer" -> HandlerResult(TRUE, "Stopping", kn, state)
      [] fn_name = "cancel" -> HandlerResult(TRUE, "Stopping", kn, state)
      [] OTHER -> HandlerResult(FALSE, "Unknown function", kn, state)

\* task_functions: general-qa has no task handler
HasTaskHandler(t) == t # "general-qa"

\* the handler task_functions returns for the task
TaskHandler(t, c, fn_name, args, kn, state) ==
    CASE t = "sparql-qa" -> SparqlQaCallFunction(c, fn_name, args, kn, state)
      [] t = "cea" -> CeaCallFunction(c, fn_name, args, kn, state)

\* grasp.functions.call_function, the dispatcher: a KG function adds the
\* identifiers of its result to known; a terminal answer that references an
\* IRI outside known fails under know-before-use; everything else goes to
\* the task handler, and fails when there is none
CallFunction(t, c, fn_name, args, kn, state) ==
    IF fn_name = "search_entities"
    THEN HandlerResult(TRUE, "search result", kn \cup {args.entity.id}, state)
    ELSE IF t = "sparql-qa" /\ fn_name = "answer" /\ c.know_before_use
            /\ args.entity.id \notin kn
    THEN HandlerResult(FALSE, "cannot be used without being known", kn, state)
    ELSE IF HasTaskHandler(t)
    THEN TaskHandler(t, c, fn_name, args, kn, state)
    ELSE HandlerResult(FALSE, "Unknown function", kn, state)

NoCall == ToolCall(Null, NoArgs)

\* the JSON documents a model writes into its message instead of calling a
\* function: a call with name and arguments or the bare arguments (name
\* Null), the arguments with the fields of AnswerModel (kg, sparql, answer)
\* or of CancelModel (explanation, best_attempt), the SPARQL using one IRI
JsonDocs == [name : {Null, "answer", "cancel"}, schema : {"answer", "cancel"}, id : IRIs]

\* the JSON text of the arguments
ArgumentsJson(schema, id) ==
    IF schema = "answer"
    THEN "{\"kg\": \"kg\", \"sparql\": \"" \o id \o "\", \"answer\": \"yes\"}"
    ELSE "{\"explanation\": \"no\", \"best_attempt\": {\"sparql\": \"" \o id \o "\", \"kg\": \"kg\"}}"

\* the JSON text of a document
JsonText(doc) ==
    IF doc.name = Null THEN ArgumentsJson(doc.schema, doc.id)
    ELSE "{\"name\": \"" \o doc.name \o "\", \"arguments\": "
         \o ArgumentsJson(doc.schema, doc.id) \o "}"

\* what a message holds between its tags or fences: a JSON text or no JSON
Bodies == {JsonText(doc) : doc \in JsonDocs} \cup {"not json"}

\* the fence of a code block: three backticks, written with quotes because
\* a string of the model cannot hold a backtick
Fence == "'''"

ToolCallTag(body) == "<tool_call>" \o body \o "</tool_call>"
JsonBlock(body) == Fence \o "json\n" \o body \o "\n" \o Fence
SparqlBlock(query) == Fence \o "sparql\n" \o query \o "\n" \o Fence

\* get_raw_tool_call_from_message: the content of the first <tool_call> tag,
\* else of the first json code block, else None; a message is a tag, a json
\* block, a tag followed by a json block, or has neither
RawToolCall(message) ==
    LET tagged == {b \in Bodies :
                      \E rest \in {""} \cup {JsonBlock(c) : c \in Bodies} :
                          message = ToolCallTag(b) \o rest}
        fenced == {b \in Bodies : message = JsonBlock(b)}
    IN  IF tagged # {} THEN CHOOSE b \in tagged : TRUE
        ELSE IF fenced # {} THEN CHOOSE b \in fenced : TRUE
        ELSE Null

\* model_validate_json of AnswerCallModel / CancelCallModel (name: str and
\* arguments of the schema): the document the text is the JSON of
ValidCalls(raw, schema) ==
    {doc \in JsonDocs : doc.name # Null /\ doc.schema = schema /\ JsonText(doc) = raw}

\* model_validate_json of AnswerModel / CancelModel on the bare arguments
ValidArguments(raw, schema) ==
    {doc \in JsonDocs : doc.name = Null /\ doc.schema = schema /\ JsonText(doc) = raw}

\* get_answer_from_message / get_cancel_from_message: a call that validates
\* is returned with the name it carries; the second try block returns from
\* its finally clause, which replaces the return value of the try by None
\* and swallows the ValidationError
CallFromMessage(message, schema) ==
    IF message = Null THEN NoCall
    ELSE LET raw == RawToolCall(message)
         IN  IF raw = Null THEN NoCall
             ELSE IF ValidCalls(raw, schema) # {}
             THEN LET doc == CHOOSE doc \in ValidCalls(raw, schema) : TRUE
                  IN  ToolCall(doc.name, [NoArgs EXCEPT !.entity = Entity("short", doc.id)])
             ELSE NoCall

\* get_sparql_from_message: a sparql code block becomes an answer
SparqlFromMessage(message) ==
    IF message # Null /\ \E id \in IRIs : message = SparqlBlock(id)
    THEN ToolCall("answer", [NoArgs EXCEPT !.entity =
             Entity("short", CHOOSE id \in IRIs : message = SparqlBlock(id))])
    ELSE NoCall

NoScan == [last_message |-> Null, last_answer |-> NoCall, last_cancel |-> NoCall,
           last_execute |-> NoCall]

\* the last call of the given names among the tool calls, 0 for none
LastNamed(tcs, names) ==
    LET named == {j \in DOMAIN tcs : tcs[j].name \in names}
    IN  IF named = {} THEN 0 ELSE CHOOSE j \in named : \A k \in named : k <= j

\* get_answer_or_cancel, the scan of messages[2:] up to message i:
\* last_message, last_answer, last_cancel and last_execute after the first
\* i messages
RECURSIVE ScanAnswerOrCancel(_, _)
ScanAnswerOrCancel(msgs, i) ==
    IF i <= 2 THEN NoScan
    ELSE LET before == ScanAnswerOrCancel(msgs, i - 1)
             m == msgs[i]
             \* reset after intermediate feedback
             start == IF m.role = "feedback" /\ m # msgs[Len(msgs)] THEN NoScan ELSE before
             tcs == m.resp.tool_calls
             last == LastNamed(tcs, {"answer", "cancel"})
             execute == LastNamed(tcs, {"execute"})
         IN  IF ~m.is_response THEN start
             ELSE [last_message |-> m.resp.message,
                   last_answer |-> IF last = 0 THEN start.last_answer
                                   ELSE IF tcs[last].name = "answer" THEN tcs[last] ELSE NoCall,
                   last_cancel |-> IF last = 0 THEN start.last_cancel
                                   ELSE IF tcs[last].name = "cancel" THEN tcs[last] ELSE NoCall,
                   last_execute |-> IF execute = 0 THEN start.last_execute ELSE tcs[execute]]

\* scan whose result ignores the last message of the conversation
GetAnswerOrCancel_BeforeLast(msgs) ==
    [last_answer |-> ScanAnswerOrCancel(msgs, Len(msgs) - 1).last_answer,
     last_cancel |-> ScanAnswerOrCancel(msgs, Len(msgs) - 1).last_cancel]

\* get_answer_or_cancel: the scan, and when it finds neither an answer nor a
\* cancel, the answer or cancel parsed from the last message, the sparql
\* block of the last message, the last execute call
GetAnswerOrCancel(msgs) ==
    LET scan == ScanAnswerOrCancel(msgs, Len(msgs))
        none == scan.last_answer = NoCall /\ scan.last_cancel = NoCall
        answer == CallFromMessage(scan.last_message, "answer")
        cancel == CallFromMessage(scan.last_message, "cancel")
        sparql == SparqlFromMessage(scan.last_message)
    IN  IF ~none THEN [last_answer |-> scan.last_answer, last_cancel |-> scan.last_cancel]
        ELSE IF answer # NoCall THEN [last_answer |-> answer, last_cancel |-> NoCall]
        ELSE IF cancel # NoCall THEN [last_answer |-> NoCall, last_cancel |-> cancel]
        ELSE IF sparql # NoCall THEN [last_answer |-> sparql, last_cancel |-> NoCall]
        ELSE IF scan.last_execute # NoCall
        THEN [last_answer |-> ToolCall("answer", scan.last_execute.args),
              last_cancel |-> NoCall]
        ELSE [last_answer |-> NoCall, last_cancel |-> NoCall]

NoOutput == [type |-> "none", call |-> NoCall, text |-> Null, annotations |-> {}]

\* sparql_qa.output
SparqlQaOutput(msgs) ==
    LET found == GetAnswerOrCancel(msgs)
    IN  IF found.last_answer = NoCall /\ found.last_cancel = NoCall THEN NoOutput
        ELSE IF found.last_answer # NoCall
        THEN [type |-> "answer", call |-> found.last_answer, text |-> Null, annotations |-> {}]
        ELSE [type |-> "cancel", call |-> found.last_cancel, text |-> Null, annotations |-> {}]

\* wikidata_query_logs.output: the first tool call of the last message; a
\* last message that is no Response, has no tool call or has another first
\* call raises, and the exception is turned into None; the SPARQL of an
\* answer can be prepared
WdqlOutput(msgs) ==
    LET last == msgs[Len(msgs)]
    IN  IF ~last.is_response \/ last.resp.tool_calls = << >> THEN NoOutput
        ELSE LET tool_call == last.resp.tool_calls[1]
             IN  IF tool_call.name \in {"answer", "cancel"}
                 THEN [type |-> tool_call.name, call |-> tool_call, text |-> Null,
                       annotations |-> {}]
                 ELSE NoOutput

\* general_qa.output: the text of the last Response of the conversation
GeneralQaOutput(msgs) ==
    LET resps == {i \in DOMAIN msgs : msgs[i].is_response}
    IN  IF resps = {} THEN NoOutput
        ELSE LET last == CHOOSE i \in resps : \A k \in resps : k <= i
             IN  IF msgs[last].resp.message = Null THEN NoOutput
                 ELSE [type |-> "output", call |-> NoCall,
                       text |-> msgs[last].resp.message, annotations |-> {}]

\* cea.output, AnnotationState.to_dict: the annotated cells with the offset
\* added to the row
CeaOutput(state) ==
    [type |-> "annotations", call |-> NoCall, text |-> Null,
     annotations |-> {[row |-> cell[1] + state.offset, column |-> cell[2],
                       entity |-> state.annotations[cell]] : cell \in DOMAIN state.annotations}]

\* task_output
TaskOutput(t, msgs, state) ==
    CASE t = "sparql-qa" -> SparqlQaOutput(msgs)
      [] t = "general-qa" -> GeneralQaOutput(msgs)
      [] t = "cea" -> CeaOutput(state)
      [] t = "wikidata-query-logs" -> WdqlOutput(msgs)

\* feedback.system_instructions / feedback_instructions exist for these tasks
HasFeedbackPrompts(t) == t \in {"sparql-qa", "cea"}

\* what the model call of generate_feedback may do: it is not made when the
\* task has no feedback prompts; else it raises litellm's Timeout or another
\* exception, returns a reply that is not one give_feedback call, or returns
\* the status of a feedback
FeedbackOutcomes(t) ==
    IF HasFeedbackPrompts(t)
    THEN {"exception", "timeout", "unparsable", "done", "refine", "retry"}
    ELSE {"unsupported"}

\* generate_feedback: raises when the task has no feedback prompts or the
\* model call raises anything but a Timeout; None on a Timeout or an
\* unparsable reply; else the arguments of give_feedback
GenerateFeedback(outcome) ==
    CASE outcome \in {"unsupported", "exception"} -> "raise"
      [] outcome \in {"timeout", "unparsable"} -> "none"
      [] OTHER -> outcome

\* loop that asks for another attempt whatever the feedback says
AfterFeedback_AlwaysRetry(fb) == "loop"

\* if feedback["status"] == "done": break, else go on with the loop
AfterFeedback(fb) == IF fb = "done" THEN "finish" ELSE "loop"

(***************************************************************************)
(* What the model may return.                                              *)
(***************************************************************************)
Args(entity, row, column) == [entity |-> entity, row |-> row, column |-> column]

Search(id) == ToolCall("search_entities", Args(Entity("short", id), 0, 0))
Answer(id) == ToolCall("answer", Args(Entity("short", id), 0, 0))
Annotate(row, column, id) == ToolCall("annotate", Args(Entity("short", id), row, column))
Stop == ToolCall("stop", NoArgs)
Bogus == ToolCall("bogus", NoArgs)

Responses(t) ==
    CASE t = "sparql-qa" ->
            { Response(Null, NoReasoning, << >>),
              Response("text", NoReasoning, << >>),
              Response(Null, NoReasoning, <<Search("a")>>),
              Response(Null, NoReasoning, <<Answer("a")>>),
              Response("text", NoReasoning, <<Answer("b")>>) }
      [] t = "general-qa" ->
            { Response(Null, NoReasoning, << >>),
              Response("text", NoReasoning, << >>),
              Response(Null, Reasoning(Null, Null), << >>),
              Response(Null, Reasoning("thought", Null), <<Search("b")>>),
              Response(Null, NoReasoning, <<Search("a"), Bogus>>),
              Response(Null, NoReasoning, <<Bogus, Search("a")>>) }
      [] t = "cea" ->
            { Response(Null, NoReasoning, << >>),
              Response("text", NoReasoning, << >>),
              Response(Null, NoReasoning, <<Search("a")>>),
              Response(Null, NoReasoning, <<Annotate(0, 0, "b")>>),
              Response("text", NoReasoning, <<Annotate(0, 0, "a"), Stop>>),
              Response(Null, NoReasoning, <<Stop, Annotate(0, 0, "a")>>) }

\* outcome of call_model: a Response, litellm's Timeout or another exception
Outcome(kind, resp) == [kind |-> kind, resp |-> resp]
NoOutcome == Outcome("none", NoResponse)

Configs ==
    [max_steps : 1..MaxSteps, feedback : BOOLEAN, max_feedbacks : 0..MaxFeedbacks,
     know_before_use : BOOLEAN]

(***************************************************************************)
(* The agent loop (grasp/core.py generate).                                *)
(***************************************************************************)
NoError == [reason |-> Null]
Error(reason) == [reason |-> reason]

NoPast == [present |-> FALSE, messages |-> << >>, known |-> {}]

Event(type, data) == [type |-> type, data |-> data]

\* generate, lines 139-148: know-before-use is switched on for cea
EffectiveConfig(t, c) ==
    IF t = "cea" THEN [c EXCEPT !.know_before_use = TRUE] ELSE c

\* task_setup: the first user message and the task state; the table of a
\* cea request has one row and one column, all cells may be annotated
TaskSetup(t) ==
    IF t = "cea" THEN [input |-> "table", state |-> AnnotationState(1, 1, NoFilter, NoFilter, 0)]
    ELSE [input |-> "question", state |-> NoState]

\* the system instruction built for the request; a follow-up request is
\* made with a different selection of knowledge graphs
SystemInstruction(p) == IF p.present THEN "instructions 2" ELSE "instructions 1"

\* past handling that keeps the system instruction built for the new request
InitialMessages_FreshSystem(p, system_instruction, input) ==
    (IF p.present /\ Len(p.messages) > 0
     THEN <<TextMessage("system", system_instruction)>> \o Tail(p.messages)
     ELSE <<TextMessage("system", system_instruction)>>)
    \o <<TextMessage("user", input)>>

\* generate, handle past: the system message takes the content of the first
\* past message, the other past messages follow, then the user input
InitialMessages(p, system_instruction, input) ==
    (IF p.present /\ Len(p.messages) > 0
     THEN <<TextMessage("system", p.messages[1].content)>> \o Tail(p.messages)
     ELSE <<TextMessage("system", system_instruction)>>)
    \o <<TextMessage("user", input)>>

\* known that forgets the past
InitialKnown_Empty(p) == {}

\* known = past_known or set()
InitialKnown(p) == IF p.present THEN p.known ELSE {}

\* len(messages) - num_messages
StepCount(msgs, n) == Len(msgs) - n

\* loop condition that admits one step too many
MayContinue_OffByOne(msgs, n, c) == StepCount(msgs, n) <= c.max_steps

\* while len(messages) - num_messages < config.max_steps
MayContinue(msgs, n, c) == StepCount(msgs, n) < c.max_steps

\* comparison of hashes that include the fresh Response id: never equal
IsLoop_WithIds(last, h) == FALSE

\* last_resp_hash == resp_hash
IsLoop(last, h) == last = <<h>>

\* handlers in the wrong order: Timeout is caught as any other exception
ModelErrorReason_ExceptOrder(kind) ==
    CASE kind = "empty" -> "empty"
      [] OTHER -> "api"

\* except Timeout: timeout; except Exception: api; response.is_empty: empty
ModelErrorReason(kind) ==
    CASE kind = "timeout" -> "timeout"
      [] kind = "exception" -> "api"
      [] kind = "empty" -> "empty"

\* a failed model call that is tried again
AfterModelError_Retry(kind) == [error |-> NoError, pc |-> "loop"]

\* generate, lines 253-274: set error, break
AfterModelError(kind) == [error |-> Error(ModelErrorReason(kind)), pc |-> "finish"]

\* error that reports the exhausted step budget
ErrorAtExhaustion_StepLimit(err) == Error("step_limit")

\* the while condition fails: error is left as it is
ErrorAtExhaustion(err) == err

\* feedback without a budget
CanGiveFeedback_NoBudget(c, n) == c.feedback

\* can_give_feedback
CanGiveFeedback(c, n) == c.feedback /\ n < c.max_feedbacks

LastMessage == messages[Len(messages)]

\* the tool calls of the assistant turn being processed
TurnCalls == LastMessage.resp.tool_calls

LoopInit ==
    /\ task \in Tasks
    /\ cfg \in Configs
    /\ pc = "setup"
    /\ messages = << >>
    /\ num_messages = 0
    /\ known = {}
    /\ task_state = NoState
    /\ last_resp_hash = << >>
    /\ retries = 0
    /\ error = NoError
    /\ response = NoOutcome
    /\ tc_idx = 0
    /\ should_stop = FALSE
    /\ events = << >>
    /\ model_calls = 0
    /\ past = NoPast
    /\ wire = NoWire
    /\ feedback_call = "none"

\* generate, lines 139-249: everything up to the loop
Setup ==
    /\ pc = "setup"
    /\ LET setup == TaskSetup(task)
           system_instruction == SystemInstruction(past)
           msgs == InitialMessages(past, system_instruction, setup.input)
       IN  /\ cfg' = EffectiveConfig(task, cfg)
           /\ task_state' = setup.state
           /\ events' = <<Event("input", setup.input), Event("system", system_instruction)>>
           /\ messages' = msgs
           /\ num_messages' = Len(msgs)
    /\ known' = InitialKnown(past)
    /\ error' = NoError
    /\ last_resp_hash' = << >>
    /\ retries' = 0
    /\ pc' = "loop"
    /\ UNCHANGED <<task, response, tc_idx, should_stop, model_calls, past>>
    /\ UNCHANGED serverVars
    /\ UNCHANGED <<wire, feedback_call>>

\* the while condition is false: fall out of the loop
LoopExit ==
    /\ pc = "loop"
    /\ ~MayContinue(messages, num_messages, cfg)
    /\ error' = ErrorAtExhaustion(error)
    /\ pc' = "finish"
    /\ UNCHANGED <<task, cfg, messages, num_messages, known, task_state, last_resp_hash,
                   retries, response, tc_idx, should_stop, events, model_calls, past>>
    /\ UNCHANGED serverVars
    /\ UNCHANGED <<wire, feedback_call>>

\* response = call_model(messages, fns, config): the serializer asserts that
\* every tool call has a result before anything is sent
CallModel ==
    /\ pc = "loop"
    /\ MayContinue(messages, num_messages, cfg)
    /\ model_calls' = model_calls + 1
    /\ IF SerializerAssertsHold(messages)
       THEN \/ response' = Outcome("timeout", NoResponse)
            \/ response' = Outcome("exception", NoResponse)
            \/ \E r \in Responses(task) : response' = Outcome("response", r)
       ELSE response' = Outcome("exception", NoResponse)
    /\ pc' = "called"
    /\ UNCHANGED <<task, cfg, messages, num_messages, known, task_state, last_resp_hash,
                   retries, error, tc_idx, should_stop, events, past>>
    /\ UNCHANGED serverVars
    /\ UNCHANGED <<wire, feedback_call>>

\* generate, lines 253-274: the model call failed or the response is empty
ModelError ==
    /\ pc = "called"
    /\ \/ response.kind \in {"timeout", "exception"}
       \/ response.kind = "response" /\ IsEmpty(response.resp)
    /\ LET kind == IF response.kind = "response" THEN "empty" ELSE response.kind
           after == AfterModelError(kind)
       IN  /\ error' = after.error
           /\ pc' = after.pc
    /\ UNCHANGED <<task, cfg, messages, num_messages, known, task_state, last_resp_hash,
                   retries, response, tc_idx, should_stop, events, model_calls, past>>
    /\ UNCHANGED serverVars
    /\ UNCHANGED <<wire, feedback_call>>

\* generate, lines 276-294: append the assistant message, detect a loop,
\* yield the model event
Receive ==
    /\ pc = "called"
    /\ response.kind = "response"
    /\ ~IsEmpty(response.resp)
    /\ messages' = Append(messages, AssistantMessage(response.resp))
    /\ IF IsLoop(last_resp_hash, Hash(response.resp))
       THEN /\ error' = Error("loop")
            /\ pc' = "finish"
            /\ UNCHANGED <<last_resp_hash, events, should_stop, tc_idx>>
       ELSE /\ last_resp_hash' = <<Hash(response.resp)>>
            /\ events' = IF HasContent(response.resp)
                         THEN Append(events, Event("model", response.resp))
                         ELSE events
            /\ should_stop' = (Len(response.resp.tool_calls) = 0)
            /\ tc_idx' = 1
            /\ pc' = "tools"
            /\ UNCHANGED error
    /\ UNCHANGED <<task, cfg, num_messages, known, task_state, retries, response,
                   model_calls, past>>
    /\ UNCHANGED serverVars
    /\ UNCHANGED <<wire, feedback_call>>

\* exception of a handler stored as it is
ToolResult_Unformatted(name, res) == res.result

\* generate, lines 298-310: the result of the call, or for an exception
\* f"Call to function {tool_call.name} returned an error:\n{e}"
ToolResult(name, res) ==
    IF res.ok THEN res.result
    ELSE "Call to function " \o name \o " returned an error:\n" \o res.result

\* generate, lines 297-323: one iteration of the loop over the tool calls
Dispatch ==
    /\ pc = "tools"
    /\ tc_idx <= Len(TurnCalls)
    /\ LET tool_call == TurnCalls[tc_idx]
           res == CallFunction(task, cfg, tool_call.name, tool_call.args, known, task_state)
           result == ToolResult(tool_call.name, res)
           done == [tool_call EXCEPT !.result = result]
       IN  /\ messages' = [messages EXCEPT ![Len(messages)].resp.tool_calls[tc_idx] = done]
           /\ known' = res.known
           /\ task_state' = res.state
           /\ events' = Append(events, Event("tool", done))
           /\ should_stop' = (should_stop \/ TaskDone(task, tool_call.name))
    /\ tc_idx' = tc_idx + 1
    /\ UNCHANGED <<task, cfg, pc, num_messages, last_resp_hash, retries, error, response,
                   model_calls, past>>
    /\ UNCHANGED serverVars
    /\ UNCHANGED <<wire, feedback_call>>

\* format_feedback
FormatFeedback(fb) == <<"Feedback", fb>>

\* generate, lines 328-385: stop, continue, or ask for feedback
Decide ==
    /\ pc = "tools"
    /\ tc_idx > Len(TurnCalls)
    /\ LET can_give_feedback == CanGiveFeedback(cfg, retries)
       IN  IF should_stop /\ ~can_give_feedback
           THEN /\ pc' = "finish"
                /\ feedback_call' = "none"
                /\ UNCHANGED <<messages, events, error, retries, last_resp_hash>>
           ELSE IF ~should_stop
           THEN /\ pc' = "loop"
                /\ feedback_call' = "none"
                /\ UNCHANGED <<messages, events, error, retries, last_resp_hash>>
           ELSE IF TaskOutput(task, messages, task_state) = NoOutput
           THEN /\ pc' = "finish"
                /\ feedback_call' = "none"
                /\ UNCHANGED <<messages, events, error, retries, last_resp_hash>>
           ELSE \E outcome \in FeedbackOutcomes(task) :
                LET feedback == GenerateFeedback(outcome)
                IN  /\ feedback_call' = outcome
                    /\ CASE feedback = "raise" ->
                              /\ error' = Error("feedback")
                              /\ pc' = "finish"
                              /\ UNCHANGED <<messages, events, retries, last_resp_hash>>
                         [] feedback = "none" ->
                              /\ pc' = "finish"
                              /\ UNCHANGED <<messages, events, error, retries, last_resp_hash>>
                         [] OTHER ->
                              /\ messages' = Append(messages,
                                     TextMessage("feedback", FormatFeedback(feedback)))
                              /\ events' = Append(events, Event("feedback", feedback))
                              /\ pc' = AfterFeedback(feedback)
                              /\ IF AfterFeedback(feedback) = "finish"
                                 THEN UNCHANGED <<retries, last_resp_hash>>
                                 ELSE /\ retries' = retries + 1
                                      /\ last_resp_hash' = << >>
                              /\ UNCHANGED error
    /\ UNCHANGED <<task, cfg, num_messages, known, task_state, response, tc_idx,
                   should_stop, model_calls, past>>
    /\ UNCHANGED serverVars
    /\ UNCHANGED wire

\* the terminal event
OutputEvent(t, msgs, kn, state, err) ==
    Event("output", [output |-> TaskOutput(t, msgs, state), error |-> err,
                     messages |-> msgs, known |-> kn])

\* output event that is only yielded when there was no error
YieldOutput_UnlessError(evs, t, msgs, kn, state, err) ==
    IF err = NoError THEN Append(evs, OutputEvent(t, msgs, kn, state, err)) ELSE evs

\* yield {"type": "output", ...}
YieldOutput(evs, t, msgs, kn, state, err) ==
    Append(evs, OutputEvent(t, msgs, kn, state, err))

\* generate, lines 387-406: extract the output and yield the output event
Finish ==
    /\ pc = "finish"
    /\ events' = YieldOutput(events, task, messages, known, task_state, error)
    /\ pc' = "done"
    /\ UNCHANGED <<task, cfg, messages, num_messages, known, task_state, last_resp_hash,
                   retries, error, response, tc_idx, should_stop, model_calls, past>>
    /\ UNCHANGED serverVars
    /\ UNCHANGED <<wire, feedback_call>>

\* the client sends a follow-up request with the messages and known of the
\* output event as past
Replay ==
    /\ pc = "done"
    /\ Len(messages) <= MaxPast
    /\ events # << >>
    /\ events[Len(events)].type = "output"
    /\ LET out == events[Len(events)].data
       IN  past' = [present |-> TRUE, messages |-> out.messages, known |-> out.known]
    /\ pc' = "setup"
    /\ messages' = << >>
    /\ num_messages' = 0
    /\ known' = {}
    /\ task_state' = NoState
    /\ last_resp_hash' = << >>
    /\ retries' = 0
    /\ error' = NoError
    /\ response' = NoOutcome
    /\ tc_idx' = 0
    /\ should_stop' = FALSE
    /\ events' = << >>
    /\ model_calls' = 0
    /\ feedback_call' = "none"
    /\ UNCHANGED <<task, cfg, wire>>
    /\ UNCHANGED serverVars

Clients == 1..NumClients

\* status codes of the responses of the server; 0 stands for no response yet
NoStatus == 0
\* return output
Ok == 200
\* HTTPException(status_code=400)
BadRequest == 400
\* HTTPException(status_code=500)
ServerError == 500
\* HTTPException(status_code=503)
TooBusy == 503
\* HTTPException(status_code=504)
TimeLimit == 504
\* websocket.close(code=1013)
TryAgainLater == 1013

\* the server before any request
ServerIdle ==
    /\ active_connections = 0
    /\ handler = [c \in Clients |-> "out"]
    /\ worker = [c \in Clients |-> "none"]
    /\ generated = [c \in Clients |-> 0]
    /\ queue = [c \in Clients |-> << >>]
    /\ stop_event = [c \in Clients |-> FALSE]
    /\ status = [c \in Clients |-> NoStatus]
    /\ abandoned = 0
    /\ frames = [c \in Clients |-> << >>]
    /\ cancel_at = [c \in Clients |-> 0]
    /\ late_calls = [c \in Clients |-> 0]
    /\ received = [c \in Clients |-> 0]
    /\ now = 0
    /\ start_time = [c \in Clients |-> 0]
    /\ last_active = [c \in Clients |-> 0]
    /\ next_poll = [c \in Clients |-> 0]

\* no generation of the agent loop is looked at
LoopIdle ==
    /\ task = "general-qa"
    /\ cfg = [max_steps |-> 1, feedback |-> FALSE, max_feedbacks |-> 0, know_before_use |-> FALSE]
    /\ pc = "setup"
    /\ messages = << >>
    /\ num_messages = 0
    /\ known = {}
    /\ task_state = NoState
    /\ last_resp_hash = << >>
    /\ retries = 0
    /\ error = NoError
    /\ response = NoOutcome
    /\ tc_idx = 0
    /\ should_stop = FALSE
    /\ events = << >>
    /\ model_calls = 0
    /\ past = NoPast
    /\ wire = NoWire
    /\ feedback_call = "none"

Init == LoopInit /\ ServerIdle

\* one step of the generator
Step == Setup \/ LoopExit \/ CallModel \/ ModelError \/ Receive \/ Dispatch \/ Decide \/ Finish

Next == Step \/ Replay

Spec == Init /\ [][Next]_vars

\* the caller drains the generator, and every model and tool call returns
FairSpec == Spec /\ WF_vars(Step)

TypeOK ==
    /\ task \in Tasks
    /\ pc \in {"setup", "loop", "called", "tools", "finish", "done"}
    /\ retries \in 0..MaxFeedbacks
    /\ known \subseteq IRIs

(***************************************************************************)
(* Properties of the agent loop.                                           *)
(***************************************************************************)
\* the messages of the conversation added since entering the loop
NewMessages == {i \in DOMAIN messages : i > num_messages}

\* the assistant turns of the request
AssistantTurns == {i \in NewMessages : messages[i].role = "assistant"}

C2_TurnsBounded == Cardinality(AssistantTurns) <= cfg.max_steps

C2_Witness ==
    /\ pc = "done"
    /\ cfg.feedback
    /\ cfg.max_steps > 1
    /\ Cardinality(AssistantTurns) = cfg.max_steps

\* assistant turns i < j of the request with no assistant turn between them
ConsecutiveTurns(i, j) ==
    /\ i \in AssistantTurns
    /\ j \in AssistantTurns
    /\ i < j
    /\ \A k \in AssistantTurns : ~(i < k /\ k < j)

\* the loop has ended at turn j with reason loop
EndedInLoopAt(j) ==
    /\ j = Len(messages)
    /\ pc \in {"finish", "done"}
    /\ error = Error("loop")

\* C3, as claimed: two consecutive assistant turns with equal hashes end the
\* loop at the second one with reason loop
C3_Original ==
    \A i, j \in AssistantTurns :
        ConsecutiveTurns(i, j) /\ Hash(messages[i].resp) = Hash(messages[j].resp)
            => EndedInLoopAt(j)

\* C3, amended: two assistant turns with equal hashes and no feedback message
\* between them end the loop at the second one with reason loop
C3_LoopDetected ==
    \A i, j \in AssistantTurns :
        j = i + 1 /\ Hash(messages[i].resp) = Hash(messages[j].resp)
            => EndedInLoopAt(j)

C3_Witness ==
    /\ pc = "done"
    /\ error = Error("loop")
    /\ Len(messages) - 1 \in AssistantTurns
    /\ messages[Len(messages)].resp.tool_calls # messages[Len(messages) - 1].resp.tool_calls

\* events e, e+1, ... are one tool event per tool call of tcs from call k on,
\* in the order of the calls
RECURSIVE ToolEventsMatch(_, _, _)
ToolEventsMatch(e, tcs, k) ==
    IF k > Len(tcs) THEN TRUE
    ELSE /\ e <= Len(events)
         /\ events[e].type = "tool"
         /\ events[e].data.name = tcs[k].name
         /\ events[e].data.args = tcs[k].args
         /\ ToolEventsMatch(e + 1, tcs, k + 1)

\* the events from e on are those of messages m..last: for an assistant turn
\* an optional model event, then the tool events of its calls; for a
\* feedback message a feedback event; the result is the index after the
\* last event matched, 0 when the events do not match
RECURSIVE MatchTurns(_, _, _)
MatchTurns(e, m, last) ==
    IF m > last THEN e
    ELSE IF messages[m].role = "assistant"
    THEN LET e1 == IF /\ e <= Len(events)
                      /\ events[e].type = "model"
                      /\ events[e].data.message = messages[m].resp.message
                      /\ events[e].data.reasoning = messages[m].resp.reasoning
                   THEN e + 1 ELSE e
             tcs == messages[m].resp.tool_calls
         IN  IF ToolEventsMatch(e1, tcs, 1) THEN MatchTurns(e1 + Len(tcs), m + 1, last) ELSE 0
    ELSE IF messages[m].role = "feedback"
    THEN IF e <= Len(events) /\ events[e].type = "feedback"
         THEN MatchTurns(e + 1, m + 1, last) ELSE 0
    ELSE 0

\* input, system, the events of messages up to last, output
EventsFollow(last) ==
    /\ Len(events) >= 3
    /\ events[1].type = "input"
    /\ events[2].type = "system"
    /\ MatchTurns(3, num_messages + 1, last) = Len(events)
    /\ events[Len(events)].type = "output"

\* C4, as claimed: input, system, then for every assistant turn an optional
\* model event and one tool event per tool call, an optional feedback event,
\* and output as the last event
C4_Original == pc = "done" => EventsFollow(Len(messages))

\* C4, amended: the same, except that the assistant turn on which a loop is
\* detected yields no event
C4_EventOrder ==
    pc = "done" =>
        EventsFollow(IF error = Error("loop") THEN Len(messages) - 1 ELSE Len(messages))

C4_Witness ==
    /\ pc = "done"
    /\ \E i \in DOMAIN events :
          /\ i + 4 = Len(events)
          /\ events[i].type = "model"
          /\ events[i + 1].type = "tool"
          /\ events[i + 2].type = "tool"
          /\ events[i + 3].type = "feedback"

\* the error reason the claim gives for a failed model call
ExpectedReason(outcome) ==
    CASE outcome.kind = "timeout" -> "timeout"
      [] outcome.kind = "exception" -> "api"
      [] outcome.kind = "response" /\ IsEmpty(outcome.resp) -> "empty"
      [] OTHER -> Null

\* C5: a model call that times out, raises or returns an empty response ends
\* the loop with reason timeout, api or empty; no message is appended, no
\* model call or tool dispatch follows, and the output event carries the
\* error and the conversation so far
C5_ModelErrors ==
    [][/\ (pc = "called" /\ ExpectedReason(response) # Null) =>
              /\ pc' = "finish"
              /\ error' = Error(ExpectedReason(response))
              /\ messages' = messages
              /\ events' = events
       /\ (pc = "finish" /\ error # NoError) =>
              /\ pc' = "done"
              /\ model_calls' = model_calls
              /\ messages' = messages
              /\ events' = Append(events, events'[Len(events')])
              /\ events'[Len(events')].type = "output"
              /\ events'[Len(events')].data.error = error
              /\ events'[Len(events')].data.messages = messages]_vars

C5_Witness ==
    /\ pc = "done"
    /\ error = Error("timeout")
    /\ AssistantTurns # {}
    /\ events[Len(events)].data.error = Error("timeout")

\* C6, as claimed: when the step count reaches max_steps the loop exits with
\* reason step_limit
C6_Original ==
    [][pc = "loop" /\ pc' = "finish" => error' = Error("step_limit")]_vars

\* C6, amended: when the step count reaches max_steps the loop exits without
\* an error, and the output event carries no error
C6_Exhaustion ==
    [][/\ (pc = "loop" /\ pc' = "finish") =>
              /\ StepCount(messages, num_messages) >= cfg.max_steps
              /\ error' = NoError
       /\ (pc = "finish" /\ error = NoError) =>
              /\ events'[Len(events')].type = "output"
              /\ events'[Len(events')].data.error = NoError]_vars

C6_Witness ==
    /\ pc = "done"
    /\ ~should_stop
    /\ error = NoError
    /\ StepCount(messages, num_messages) = cfg.max_steps
    /\ events[Len(events)].data.error = NoError

\* C7: at every model call every tool call of the conversation has a result
C7_ResultsPresent == pc = "called" => SerializerAssertsHold(messages)

\* C8: the Known Set only grows during a request, and contains past.known
C8_KnownGrows ==
    [][/\ pc # "done" => known \subseteq known'
       /\ pc' \notin {"setup", "done"} => past'.known \subseteq known']_vars

C8_Witness ==
    /\ pc = "done"
    /\ past.present
    /\ past.known # {}
    /\ known # past.known

\* the IRIs in the arguments of the tool calls that make up the output
FinalIRIs(out) ==
    CASE out.type = "answer" -> {out.call.args.entity.id}
      [] out.type = "annotations" -> {a.entity.id : a \in out.annotations}
      [] OTHER -> {}

\* C9: under know-before-use every IRI of the final output is in the Known
\* Set when the loop ends
C9_KnowBeforeUse ==
    (pc = "done" /\ cfg.know_before_use) =>
        FinalIRIs(events[Len(events)].data.output) \subseteq known

\* C16: the messages of every output event can be replayed as past: every
\* tool call in them has a result
C16_Replayable ==
    pc = "done" => SerializerAssertsHold(events[Len(events)].data.messages)

\* C17: every tool call of a turn that passed loop detection is dispatched in
\* order and gets a result, the formatted error when its handler raised; a
\* tool event is emitted for it, and the turn is left only after its last call
C17_AllDispatched ==
    [][/\ (pc = "tools" /\ tc_idx <= Len(TurnCalls)) =>
              LET tool_call == TurnCalls[tc_idx]
                  res == CallFunction(task, cfg, tool_call.name, tool_call.args,
                                      known, task_state)
                  done == messages'[Len(messages)].resp.tool_calls[tc_idx]
              IN  /\ pc' = "tools"
                  /\ tc_idx' = tc_idx + 1
                  /\ done.result # Null
                  /\ ~res.ok => done.result = "Call to function " \o tool_call.name
                                                 \o " returned an error:\n" \o res.result
                  /\ events' = Append(events, Event("tool", done))
       /\ (pc = "tools" /\ pc' # "tools") =>
              \A j \in DOMAIN TurnCalls : TurnCalls[j].result # Null]_vars

C17_Witness ==
    /\ pc = "done"
    /\ task = "cea"
    /\ Len(TurnCalls) = 2
    /\ TurnCalls[1].name = "stop"
    /\ TurnCalls[2].result = "Call to function annotate returned an error:\n"
                                \o "cannot be used without being known"
    /\ events[Len(events) - 1].data = TurnCalls[2]

\* a step in which the feedback call shows: a feedback message is appended
\* or the error reason feedback is set
FeedbackEffect ==
    /\ pc = "tools"
    /\ \/ Len(messages') > Len(messages) /\ messages'[Len(messages')].role = "feedback"
       \/ error' = Error("feedback")

\* C18: feedback is generated only when config.feedback is true, the turn
\* stops, retries are left, the task has an output and the task has feedback
\* prompts; for a task without feedback prompts no feedback message and no
\* feedback error arises
C18_FeedbackGated ==
    [][FeedbackEffect =>
          /\ cfg.feedback
          /\ should_stop
          /\ retries < cfg.max_feedbacks
          /\ TaskOutput(task, messages, task_state) # NoOutput
          /\ HasFeedbackPrompts(task)]_vars

\* the feedback messages appended during the request
FeedbackMessages == {i \in NewMessages : messages[i].role = "feedback"}

\* the feedback events yielded
FeedbackEvents == {i \in DOMAIN events : events[i].type = "feedback"}

\* C19: at most max_feedbacks feedback messages are appended (as many as
\* feedback events are yielded), none when config.feedback is false
C19_FeedbackBounded ==
    /\ Cardinality(FeedbackMessages) <= cfg.max_feedbacks
    /\ Cardinality(FeedbackEvents) = Cardinality(FeedbackMessages)
    /\ ~cfg.feedback => FeedbackMessages = {}

C19_Witness ==
    /\ pc = "done"
    /\ cfg.max_feedbacks > 0
    /\ Cardinality(FeedbackMessages) = cfg.max_feedbacks
    /\ LastMessage.role = "assistant"

(***************************************************************************)
(* The server runtime (grasp/server.py serve).                             *)
(***************************************************************************)
\* capacity check that admits one connection too many
ServerFull_OffByOne(n) == n > MaxConnections

\* active_connections >= config.max_connections
ServerFull(n) == n >= MaxConnections

\* _run, lines 163-173: refuse with 503 when the server is full
RunRefuse(c) ==
    /\ handler[c] = "out"
    /\ ServerFull(active_connections)
    /\ status[c] # TooBusy
    /\ status' = [status EXCEPT ![c] = TooBusy]
    /\ UNCHANGED <<active_connections, handler, worker, generated, queue, stop_event, abandoned>>
    /\ UNCHANGED liveVars
    /\ UNCHANGED loopVars

\* _run, lines 173-186 and 241-243: admitted, the selection of knowledge
\* graphs is not supported: 400, and the finally block undoes the increment
RunInvalid(c) ==
    /\ handler[c] = "out"
    /\ ~ServerFull(active_connections)
    /\ status[c] # BadRequest
    /\ active_connections' = (active_connections + 1) - 1
    /\ status' = [status EXCEPT ![c] = BadRequest]
    /\ UNCHANGED <<handler, worker, generated, queue, stop_event, abandoned>>
    /\ UNCHANGED liveVars
    /\ UNCHANGED loopVars

\* _run, lines 173-216: admitted, run_generate is started on a worker
\* thread and the handler waits for it
RunStart(c) ==
    /\ handler[c] = "out"
    /\ ~ServerFull(active_connections)
    /\ active_connections' = active_connections + 1
    /\ handler' = [handler EXCEPT ![c] = "run_wait"]
    /\ worker' = [worker EXCEPT ![c] = "gen"]
    /\ generated' = [generated EXCEPT ![c] = 0]
    /\ status' = [status EXCEPT ![c] = NoStatus]
    /\ UNCHANGED <<queue, stop_event, abandoned>>
    /\ UNCHANGED liveVars
    /\ UNCHANGED loopVars

\* run_generate of _run: the worker drains the generator, which yields its
\* next event, ends, or raises
RunWorker(c) ==
    /\ handler[c] = "run_wait"
    /\ worker[c] = "gen"
    /\ \/ /\ generated[c] < GenLen
          /\ generated' = [generated EXCEPT ![c] = generated[c] + 1]
          /\ UNCHANGED worker
       \/ /\ generated[c] = GenLen
          /\ worker' = [worker EXCEPT ![c] = "finished"]
          /\ UNCHANGED generated
       \/ /\ generated[c] < GenLen
          /\ worker' = [worker EXCEPT ![c] = "raised"]
          /\ UNCHANGED generated
    /\ UNCHANGED <<active_connections, handler, queue, stop_event, status, abandoned>>
    /\ UNCHANGED liveVars
    /\ UNCHANGED loopVars

\* _run, lines 212-243: the worker is done: 200 with the output, 500 when
\* it raised; the finally block decrements the counter
RunComplete(c) ==
    /\ handler[c] = "run_wait"
    /\ worker[c] \in {"finished", "raised"}
    /\ status' = [status EXCEPT ![c] = IF worker[c] = "finished" THEN Ok ELSE ServerError]
    /\ active_connections' = active_connections - 1
    /\ handler' = [handler EXCEPT ![c] = "out"]
    /\ worker' = [worker EXCEPT ![c] = "none"]
    /\ generated' = [generated EXCEPT ![c] = 0]
    /\ UNCHANGED <<queue, stop_event, abandoned>>
    /\ UNCHANGED liveVars
    /\ UNCHANGED loopVars

\* _run, lines 213-226 and 241-243: asyncio.wait_for times out: 504, the
\* counter is decremented; the thread of asyncio.to_thread cannot be
\* cancelled and goes on running run_generate
RunTimeout(c) ==
    /\ handler[c] = "run_wait"
    /\ worker[c] = "gen"
    /\ abandoned < MaxAbandoned
    /\ status' = [status EXCEPT ![c] = TimeLimit]
    /\ active_connections' = active_connections - 1
    /\ handler' = [handler EXCEPT ![c] = "out"]
    /\ worker' = [worker EXCEPT ![c] = "none"]
    /\ generated' = [generated EXCEPT ![c] = 0]
    /\ abandoned' = abandoned + 1
    /\ UNCHANGED <<queue, stop_event>>
    /\ UNCHANGED liveVars
    /\ UNCHANGED loopVars

\* the thread of a timed out /run request ends; its result is dropped
AbandonedEnds ==
    /\ abandoned > 0
    /\ abandoned' = abandoned - 1
    /\ UNCHANGED <<active_connections, handler, worker, generated, queue, stop_event, status>>
    /\ UNCHANGED liveVars
    /\ UNCHANGED loopVars

\* an item of the queue: ("data", event), ("error", exc) or ("done", None);
\* the events of a generation are numbered in the order they are yielded
Item(kind, payload) == [kind |-> kind, payload |-> payload]

\* a frame sent to the client: an event, {"error": ...} or {"cancelled": true}
Frame(type, n) == [type |-> type, n |-> n]

\* queue that hands out the newest item first
Enqueue_Front(q, item) == <<item>> \o q

\* queue.put(item) on the asyncio.Queue() of the request, which has no
\* maxsize: the put never waits
Enqueue(q, item) == Append(q, item)

\* acknowledgement whose cancel flag is ignored
AfterAck_IgnoreCancel(cancel) == "live_get"

\* data.get("cancel", False): break out of the forwarding loop, else go on
AfterAck(cancel) == IF cancel THEN "live_join" ELSE "live_get"

\* config.max_generation_time, in seconds
max_generation_time == 1

\* config.max_idle_time, in seconds
max_idle_time == 1

\* the sleep of idle_checker: min(5, config.max_idle_time)
PollInterval == IF 5 < max_idle_time THEN 5 ELSE max_idle_time

\* the socket of the /live connection of c is open: accepted and not closed
\* by the idle checker
SocketOpen(c) ==
    /\ handler[c] \in {"live_recv", "live_get", "live_ack", "live_join", "live_join_exit"}
    /\ status[c] # TryAgainLater

\* idle check that closes a socket whose last frame is exactly max_idle_time old
IdleExpired_Early(t, active) == t - active >= max_idle_time

\* idle_checker: the connection is idle unless t - last_active <= max_idle_time
IdleExpired(t, active) == ~(t - active <= max_idle_time)

\* time check that never fires
TimeExceeded_Never(t, start) == FALSE

\* current_time - start_time > config.max_generation_time
TimeExceeded(t, start) == t - start > max_generation_time

\* forwarding loop that does not wait for the client after an event
AfterEvent_NoAck(n) == "live_get"

\* after send_json(output) the handler awaits receive_json, whichever event
\* number n of the request was sent
AfterEvent(n) == "live_ack"

\* the part of generate that runs between yielding event n and the next
\* yield may call the model: not before the system event, not after output
MayCallModel(n) == n >= 2 /\ n < GenLen

\* _live, lines 250-259: the connection is closed with 1013 when the
\* server is full
LiveRefuse(c) ==
    /\ handler[c] = "out"
    /\ ServerFull(active_connections)
    /\ status[c] # TryAgainLater
    /\ status' = [status EXCEPT ![c] = TryAgainLater]
    /\ UNCHANGED <<active_connections, handler, worker, generated, queue, stop_event, abandoned>>
    /\ UNCHANGED liveVars
    /\ UNCHANGED loopVars

\* _live, lines 261-282: the connection is admitted and the handler waits
\* for the first Request
LiveConnect(c) ==
    /\ handler[c] = "out"
    /\ ~ServerFull(active_connections)
    /\ active_connections' = active_connections + 1
    /\ handler' = [handler EXCEPT ![c] = "live_recv"]
    /\ status' = [status EXCEPT ![c] = NoStatus]
    /\ last_active' = [last_active EXCEPT ![c] = now]
    /\ next_poll' = [next_poll EXCEPT ![c] = now + PollInterval]
    /\ UNCHANGED <<worker, generated, queue, stop_event, abandoned>>
    /\ UNCHANGED <<frames, cancel_at, late_calls, received, now, start_time>>
    /\ UNCHANGED loopVars

\* _live, lines 282-304: a frame that is no valid Request, or names an
\* unsupported knowledge graph, is answered with an error frame
LiveInvalid(c) ==
    /\ handler[c] = "live_recv"
    /\ SocketOpen(c)
    /\ last_active' = [last_active EXCEPT ![c] = now]
    /\ frames' = [frames EXCEPT ![c] = <<Frame("error", 0)>>]
    /\ generated' = [generated EXCEPT ![c] = 0]
    /\ cancel_at' = [cancel_at EXCEPT ![c] = 0]
    /\ late_calls' = [late_calls EXCEPT ![c] = 0]
    /\ received' = [received EXCEPT ![c] = 0]
    /\ UNCHANGED <<active_connections, handler, worker, queue, stop_event, status,
                   abandoned, now, start_time, next_poll>>
    /\ UNCHANGED loopVars

\* _live, lines 282-359: a valid Request arrives: a fresh queue and stop
\* event, and run_generate is started on a worker thread
LiveRequest(c) ==
    /\ handler[c] = "live_recv"
    /\ SocketOpen(c)
    /\ handler' = [handler EXCEPT ![c] = "live_get"]
    /\ worker' = [worker EXCEPT ![c] = "gen"]
    /\ generated' = [generated EXCEPT ![c] = 0]
    /\ queue' = [queue EXCEPT ![c] = << >>]
    /\ stop_event' = [stop_event EXCEPT ![c] = FALSE]
    /\ frames' = [frames EXCEPT ![c] = << >>]
    /\ cancel_at' = [cancel_at EXCEPT ![c] = 0]
    /\ late_calls' = [late_calls EXCEPT ![c] = 0]
    /\ received' = [received EXCEPT ![c] = 0]
    /\ last_active' = [last_active EXCEPT ![c] = now]
    /\ start_time' = [start_time EXCEPT ![c] = now]
    /\ UNCHANGED <<active_connections, status, abandoned, now, next_poll>>
    /\ UNCHANGED loopVars

\* run_generate of _live, lines 324-337 and 345-349: the generator runs to
\* its next yield, with or without a model call on the way; it yields its
\* next event, ends, or raises (the error is put on the queue)
LiveWorkerGen(c) ==
    /\ handler[c] \in {"live_get", "live_ack", "live_join", "live_join_exit"}
    /\ worker[c] = "gen"
    /\ \/ /\ generated[c] < GenLen
          /\ \E call \in {FALSE, MayCallModel(generated[c])} :
                late_calls' = [late_calls EXCEPT ![c] =
                                  IF call /\ cancel_at[c] > 0 THEN @ + 1 ELSE @]
          /\ generated' = [generated EXCEPT ![c] = generated[c] + 1]
          /\ worker' = [worker EXCEPT ![c] = "put"]
          /\ UNCHANGED queue
       \/ /\ generated[c] = GenLen
          /\ worker' = [worker EXCEPT ![c] = "finally"]
          /\ UNCHANGED <<generated, queue, late_calls>>
       \/ /\ generated[c] < GenLen
          /\ queue' = [queue EXCEPT ![c] = Enqueue(queue[c], Item("error", 0))]
          /\ worker' = [worker EXCEPT ![c] = "finally"]
          /\ UNCHANGED <<generated, late_calls>>
    /\ UNCHANGED <<active_connections, handler, stop_event, status, abandoned,
                   frames, cancel_at, received, clockVars>>
    /\ UNCHANGED loopVars

\* run_generate of _live, lines 338-343: leave the loop when the stop event
\* is set, else put the event on the queue
LiveWorkerPut(c) ==
    /\ worker[c] = "put"
    /\ IF stop_event[c]
       THEN /\ worker' = [worker EXCEPT ![c] = "finally"]
            /\ UNCHANGED queue
       ELSE /\ queue' = [queue EXCEPT ![c] = Enqueue(queue[c], Item("data", generated[c]))]
            /\ worker' = [worker EXCEPT ![c] = "gen"]
    /\ UNCHANGED <<active_connections, handler, generated, stop_event, status, abandoned>>
    /\ UNCHANGED liveVars
    /\ UNCHANGED loopVars

\* finally block whose put waits for room in a queue of one item
LiveWorkerFinally_Waits(c) ==
    /\ worker[c] = "finally"
    /\ queue[c] = << >>
    /\ queue' = [queue EXCEPT ![c] = Enqueue(queue[c], Item("done", 0))]
    /\ worker' = [worker EXCEPT ![c] = "finished"]
    /\ UNCHANGED <<active_connections, handler, generated, stop_event, status, abandoned>>
    /\ UNCHANGED liveVars
    /\ UNCHANGED loopVars

\* run_generate of _live, lines 350-354: the finally block puts done
LiveWorkerFinally(c) ==
    /\ worker[c] = "finally"
    /\ queue' = [queue EXCEPT ![c] = Enqueue(queue[c], Item("done", 0))]
    /\ worker' = [worker EXCEPT ![c] = "finished"]
    /\ UNCHANGED <<active_connections, handler, generated, stop_event, status, abandoned>>
    /\ UNCHANGED liveVars
    /\ UNCHANGED loopVars

\* _live, lines 363-401: take the next item from the queue: an event is
\* sent to the client, unless the generation time is used up; an error or
\* the end of the generation leaves the loop
LiveGet(c) ==
    /\ handler[c] = "live_get"
    /\ SocketOpen(c)
    /\ queue[c] # << >>
    /\ queue' = [queue EXCEPT ![c] = Tail(queue[c])]
    /\ \/ /\ Head(queue[c]).kind = "data"
          /\ ~TimeExceeded(now, start_time[c])
          /\ frames' = [frames EXCEPT ![c] = Append(@, Frame("event", Head(queue[c]).payload))]
          /\ handler' = [handler EXCEPT ![c] = AfterEvent(Head(queue[c]).payload)]
          /\ UNCHANGED stop_event
       \/ /\ Head(queue[c]).kind = "data"
          /\ TimeExceeded(now, start_time[c])
          /\ stop_event' = [stop_event EXCEPT ![c] = TRUE]
          /\ frames' = [frames EXCEPT ![c] = Append(@, Frame("error", 0))]
          /\ handler' = [handler EXCEPT ![c] = "live_join"]
       \/ /\ Head(queue[c]).kind = "error"
          /\ stop_event' = [stop_event EXCEPT ![c] = TRUE]
          /\ frames' = [frames EXCEPT ![c] = Append(@, Frame("error", 0))]
          /\ handler' = [handler EXCEPT ![c] = "live_join"]
       \/ /\ Head(queue[c]).kind = "done"
          /\ stop_event' = [stop_event EXCEPT ![c] = TRUE]
          /\ handler' = [handler EXCEPT ![c] = "live_join"]
          /\ UNCHANGED frames
    /\ UNCHANGED <<active_connections, worker, generated, status, abandoned,
                   cancel_at, late_calls, received, clockVars>>
    /\ UNCHANGED loopVars

\* _live, lines 363-411 on a socket the idle checker has closed: send_json
\* raises, the finally block sets the stop event and waits for the worker,
\* and the handler ends; after done the handler leaves the forwarding loop
\* and the next receive_json raises
LiveSendFails(c) ==
    /\ handler[c] = "live_get"
    /\ ~SocketOpen(c)
    /\ queue[c] # << >>
    /\ queue' = [queue EXCEPT ![c] = Tail(queue[c])]
    /\ stop_event' = [stop_event EXCEPT ![c] = TRUE]
    /\ handler' = [handler EXCEPT ![c] =
                      IF Head(queue[c]).kind = "done" THEN "live_join" ELSE "live_join_exit"]
    /\ UNCHANGED <<active_connections, worker, generated, status, abandoned>>
    /\ UNCHANGED liveVars
    /\ UNCHANGED loopVars

\* _live, lines 380-387: the acknowledgement of the client; with cancel the
\* stop event is set and {"cancelled": true} is sent
LiveAck(c) ==
    /\ handler[c] = "live_ack"
    /\ SocketOpen(c)
    /\ last_active' = [last_active EXCEPT ![c] = now]
    /\ received' = [received EXCEPT ![c] = @ + 1]
    /\ \E cancel \in BOOLEAN :
          /\ handler' = [handler EXCEPT ![c] = AfterAck(cancel)]
          /\ IF cancel
             THEN /\ cancel_at' = [cancel_at EXCEPT ![c] = Len(frames[c])]
                  /\ stop_event' = [stop_event EXCEPT ![c] = TRUE]
                  /\ frames' = [frames EXCEPT ![c] = Append(@, Frame("cancelled", 0))]
             ELSE UNCHANGED <<cancel_at, stop_event, frames>>
    /\ UNCHANGED <<active_connections, worker, generated, queue, status, abandoned,
                   late_calls, now, start_time, next_poll>>
    /\ UNCHANGED loopVars

\* _live, lines 403-411: the client disconnects (or the idle checker closes
\* the socket) while the handler waits for a frame
LiveDisconnect(c) ==
    /\ \/ /\ handler[c] = "live_recv"
          /\ handler' = [handler EXCEPT ![c] = "live_exit"]
          /\ UNCHANGED stop_event
       \/ /\ handler[c] = "live_ack"
          /\ stop_event' = [stop_event EXCEPT ![c] = TRUE]
          /\ handler' = [handler EXCEPT ![c] = "live_join_exit"]
    /\ UNCHANGED <<active_connections, worker, generated, queue, status, abandoned>>
    /\ UNCHANGED liveVars
    /\ UNCHANGED loopVars

\* inner finally block that goes on without awaiting the producer
LiveJoin_NoWait(c) ==
    /\ handler[c] \in {"live_join", "live_join_exit"}
    /\ handler' = [handler EXCEPT ![c] = IF handler[c] = "live_join" THEN "live_recv" ELSE "live_exit"]
    /\ UNCHANGED <<active_connections, worker, generated, queue, stop_event, status, abandoned>>
    /\ UNCHANGED liveVars
    /\ UNCHANGED loopVars

\* _live, lines 403-408: await producer, the worker thread has ended
LiveJoin(c) ==
    /\ handler[c] \in {"live_join", "live_join_exit"}
    /\ worker[c] = "finished"
    /\ handler' = [handler EXCEPT ![c] = IF handler[c] = "live_join" THEN "live_recv" ELSE "live_exit"]
    /\ worker' = [worker EXCEPT ![c] = "none"]
    /\ queue' = [queue EXCEPT ![c] = << >>]
    /\ UNCHANGED <<active_connections, generated, stop_event, status, abandoned>>
    /\ UNCHANGED liveVars
    /\ UNCHANGED loopVars

\* outer finally block that leaves the counter as it is
LiveExit_NoDecrement(c) ==
    /\ handler[c] = "live_exit"
    /\ handler' = [handler EXCEPT ![c] = "out"]
    /\ stop_event' = [stop_event EXCEPT ![c] = FALSE]
    /\ generated' = [generated EXCEPT ![c] = 0]
    /\ frames' = [frames EXCEPT ![c] = << >>]
    /\ cancel_at' = [cancel_at EXCEPT ![c] = 0]
    /\ late_calls' = [late_calls EXCEPT ![c] = 0]
    /\ received' = [received EXCEPT ![c] = 0]
    /\ start_time' = [start_time EXCEPT ![c] = 0]
    /\ last_active' = [last_active EXCEPT ![c] = 0]
    /\ next_poll' = [next_poll EXCEPT ![c] = 0]
    /\ UNCHANGED <<active_connections, worker, queue, status, abandoned, now>>
    /\ UNCHANGED loopVars

\* _live, lines 417-420: the outer finally block decrements the counter
LiveExit(c) ==
    /\ handler[c] = "live_exit"
    /\ active_connections' = active_connections - 1
    /\ handler' = [handler EXCEPT ![c] = "out"]
    /\ stop_event' = [stop_event EXCEPT ![c] = FALSE]
    /\ generated' = [generated EXCEPT ![c] = 0]
    /\ frames' = [frames EXCEPT ![c] = << >>]
    /\ cancel_at' = [cancel_at EXCEPT ![c] = 0]
    /\ late_calls' = [late_calls EXCEPT ![c] = 0]
    /\ received' = [received EXCEPT ![c] = 0]
    /\ start_time' = [start_time EXCEPT ![c] = 0]
    /\ last_active' = [last_active EXCEPT ![c] = 0]
    /\ next_poll' = [next_poll EXCEPT ![c] = 0]
    /\ UNCHANGED <<worker, queue, status, abandoned, now>>
    /\ UNCHANGED loopVars

\* idle_checker, lines 265-276: when its sleep ends, the checker closes the
\* socket with 1013 if the connection is idle, else it sleeps again
IdleCheck(c) ==
    /\ SocketOpen(c)
    /\ now >= next_poll[c]
    /\ IF IdleExpired(now, last_active[c])
       THEN /\ status' = [status EXCEPT ![c] = TryAgainLater]
            /\ UNCHANGED next_poll
       ELSE /\ next_poll' = [next_poll EXCEPT ![c] = now + PollInterval]
            /\ UNCHANGED status
    /\ UNCHANGED <<active_connections, handler, worker, generated, queue, stop_event,
                   abandoned, frames, cancel_at, late_calls, received, now, start_time,
                   last_active>>
    /\ UNCHANGED loopVars

\* a second passes, unless the sleep of an idle checker has ended
Tick ==
    /\ now < MaxTime
    /\ \A c \in Clients : SocketOpen(c) => now < next_poll[c]
    /\ now' = now + 1
    /\ UNCHANGED <<active_connections, handler, worker, generated, queue, stop_event,
                   status, abandoned, frames, cancel_at, late_calls, received, start_time,
                   last_active, next_poll>>
    /\ UNCHANGED loopVars

\* a long time passes at once: the clock jumps to MaxTime, past both limits
Lapse ==
    /\ now = 0
    /\ now' = MaxTime
    /\ UNCHANGED <<active_connections, handler, worker, generated, queue, stop_event,
                   status, abandoned, frames, cancel_at, late_calls, received, start_time,
                   last_active, next_poll>>
    /\ UNCHANGED loopVars

ServerInit == LoopIdle /\ ServerIdle

ServerNext ==
    \/ \E c \in Clients : RunRefuse(c)
    \/ \E c \in Clients : RunInvalid(c)
    \/ \E c \in Clients : RunStart(c)
    \/ \E c \in Clients : RunWorker(c)
    \/ \E c \in Clients : RunComplete(c)
    \/ \E c \in Clients : RunTimeout(c)
    \/ AbandonedEnds
    \/ \E c \in Clients : LiveRefuse(c)
    \/ \E c \in Clients : LiveConnect(c)
    \/ \E c \in Clients : LiveInvalid(c)
    \/ \E c \in Clients : LiveRequest(c)
    \/ \E c \in Clients : LiveWorkerGen(c)
    \/ \E c \in Clients : LiveWorkerPut(c)
    \/ \E c \in Clients : LiveWorkerFinally(c)
    \/ \E c \in Clients : LiveGet(c)
    \/ \E c \in Clients : LiveSendFails(c)
    \/ \E c \in Clients : LiveAck(c)
    \/ \E c \in Clients : LiveDisconnect(c)
    \/ \E c \in Clients : LiveJoin(c)
    \/ \E c \in Clients : LiveExit(c)
    \/ \E c \in Clients : IdleCheck(c)
    \/ Lapse

\* the server with all its clients; the time passes in one long step
ServerSpec == ServerInit /\ [][ServerNext]_vars

\* the client of the /live connection that is followed second by second
LiveClients == {1}

LiveNext ==
    \/ \E c \in LiveClients : LiveConnect(c)
    \/ \E c \in LiveClients : LiveInvalid(c)
    \/ \E c \in LiveClients : LiveRequest(c)
    \/ \E c \in LiveClients : LiveWorkerGen(c)
    \/ \E c \in LiveClients : LiveWorkerPut(c)
    \/ \E c \in LiveClients : LiveWorkerFinally(c)
    \/ \E c \in LiveClients : LiveGet(c)
    \/ \E c \in LiveClients : LiveSendFails(c)
    \/ \E c \in LiveClients : LiveAck(c)
    \/ \E c \in LiveClients : LiveDisconnect(c)
    \/ \E c \in LiveClients : LiveJoin(c)
    \/ \E c \in LiveClients : LiveExit(c)
    \/ \E c \in LiveClients : IdleCheck(c)
    \/ Tick

\* one /live connection, with the clock in seconds
LiveSpec == ServerInit /\ [][LiveNext]_vars

\* worker threads that are running generate
RunningGenerations ==
    Cardinality({c \in Clients : worker[c] \in {"gen", "put"}}) + abandoned

\* C10: at most max_connections generations run at any time
C10_Capacity == RunningGenerations <= MaxConnections

ServerTypeOK ==
    /\ active_connections \in 0..MaxConnections
    /\ abandoned \in 0..MaxAbandoned
    /\ \A c \in Clients : Len(queue[c]) <= GenLen + 2
    /\ \A c \in Clients : late_calls[c] \in 0..1

\* a request of client c arrives: its handler leaves the state out or
\* answers it
Arrives(c) == handler[c] = "out" /\ (handler'[c] # "out" \/ status'[c] # status[c])

\* C11: a /run request or /live connection that arrives while
\* active_connections >= max_connections is refused with 503 or 1013, starts
\* no generation and leaves the counter unchanged
C11_Refused ==
    [][\A c \in Clients :
          (Arrives(c) /\ active_connections >= MaxConnections) =>
              /\ status'[c] \in {TooBusy, TryAgainLater}
              /\ handler'[c] = "out"
              /\ worker' = worker
              /\ abandoned' = abandoned
              /\ active_connections' = active_connections]_vars

C11_Witness ==
    \E c, d \in Clients :
        /\ c # d
        /\ handler[c] = "out"
        /\ status[c] = TryAgainLater
        /\ worker[c] = "none"
        /\ handler[d] = "run_wait"
        /\ active_connections = MaxConnections

\* C12: after a cancel has been received on /live, at most one further
\* frame of the request is sent to the client
C12_CancelStops ==
    \A c \in Clients : cancel_at[c] > 0 => Len(frames[c]) - cancel_at[c] <= 1

C12_Witness ==
    \E c \in Clients :
        /\ cancel_at[c] > 0
        /\ Len(frames[c]) = cancel_at[c] + 1
        /\ handler[c] = "live_recv"
        /\ generated[c] > cancel_at[c]

\* C13: once the cancel of the client has been received, the worker of
\* the request starts no further model call
C13_NoLateCall == \A c \in Clients : late_calls[c] = 0

\* the events forwarded to the client
Forwarded(c) == SelectSeq(frames[c], LAMBDA f : f.type = "event")

\* C14: the events sent to the client are a prefix of the events the
\* generator yielded, in order
C14_Prefix ==
    \A c \in Clients :
        /\ Len(Forwarded(c)) <= generated[c]
        /\ \A i \in DOMAIN Forwarded(c) : Forwarded(c)[i].n = i

C14_Witness ==
    \E c \in Clients :
        /\ Len(Forwarded(c)) = GenLen
        /\ handler[c] = "live_recv"

\* the events waiting in the queue of the request
QueuedEvents(c) == {i \in DOMAIN queue[c] : queue[c][i].kind = "data"}

\* C15: the queue between worker and handler has a fixed capacity that holds
\* the worker back: it never holds all events of a generation at once
C15_Backpressure == \A c \in Clients : Cardinality(QueuedEvents(c)) < GenLen

(***************************************************************************)
(* The AnnotationState of the cea task on its own (grasp/tasks/cea.py).    *)
(***************************************************************************)
\* annotate_rows / annotate_columns of a table: None, or any list of indices,
\* which Table does not check against the size of the table
Filters(n) == {NoFilter} \cup {Filter(f) : f \in SUBSET (0..n)}

\* row and column arguments the model may write
Coords(n) == -1..n

Delete(row, column) == ToolCall("delete_annotation", Args(NoEntity, row, column))

\* AnnotationState(table): the header is not empty, no cell is annotated
CeaInit ==
    /\ task = "cea"
    /\ cfg = [max_steps |-> 1, feedback |-> FALSE, max_feedbacks |-> 0, know_before_use |-> TRUE]
    /\ \E height \in 0..MaxRows, width \in 1..MaxCols,
          rows \in Filters(MaxRows), cols \in Filters(MaxCols) :
          task_state = AnnotationState(height, width, rows, cols, 0)
    /\ known = {"a"}
    /\ pc = "tools"
    /\ messages = << >>
    /\ num_messages = 0
    /\ last_resp_hash = << >>
    /\ retries = 0
    /\ error = NoError
    /\ response = NoOutcome
    /\ tc_idx = 0
    /\ should_stop = FALSE
    /\ events = << >>
    /\ model_calls = 0
    /\ past = NoPast
    /\ wire = NoWire
    /\ feedback_call = "none"
    /\ ServerIdle

\* cea.call_function for one tool call: the state after it and its tool event
CeaCall(tool_call) ==
    LET res == CeaCallFunction(cfg, tool_call.name, tool_call.args, known, task_state)
    IN  [state |-> res.state,
         event |-> Event("tool", [tool_call EXCEPT !.result = ToolResult(tool_call.name, res)])]

\* the model calls annotate; events keeps the tool event of the latest call
CeaAnnotateCall ==
    /\ \E row \in Coords(MaxRows), column \in Coords(MaxCols), id \in IRIs :
          /\ task_state' = CeaCall(Annotate(row, column, id)).state
          /\ events' = <<CeaCall(Annotate(row, column, id)).event>>
    /\ UNCHANGED <<task, cfg, pc, messages, num_messages, known, last_resp_hash, retries,
                   error, response, tc_idx, should_stop, model_calls, past>>
    /\ UNCHANGED serverVars
    /\ UNCHANGED <<wire, feedback_call>>

\* the model calls delete_annotation
CeaDeleteCall ==
    /\ \E row \in Coords(MaxRows), column \in Coords(MaxCols) :
          /\ task_state' = CeaCall(Delete(row, column)).state
          /\ events' = <<CeaCall(Delete(row, column)).event>>
    /\ UNCHANGED <<task, cfg, pc, messages, num_messages, known, last_resp_hash, retries,
                   error, response, tc_idx, should_stop, model_calls, past>>
    /\ UNCHANGED serverVars
    /\ UNCHANGED <<wire, feedback_call>>

CeaNext == CeaAnnotateCall \/ CeaDeleteCall

CeaSpec == CeaInit /\ [][CeaNext]_vars

\* the cell may be annotated: inside the table and allowed by the filters
CellAllowed(state, cell) ==
    /\ 0 <= cell[1] /\ cell[1] < state.height
    /\ 0 <= cell[2] /\ cell[2] < state.width
    /\ ~state.rows.all => cell[1] \in state.rows.set
    /\ ~state.cols.all => cell[2] \in state.cols.set

\* C20: after any sequence of annotate and delete_annotation calls every
\* annotated cell lies inside the table and is allowed by the row and column
\* filters
C20_CellsAllowed ==
    \A cell \in DOMAIN task_state.annotations : CellAllowed(task_state, cell)

C20_Witness ==
    /\ events # << >>
    /\ events[1].data.name = "delete_annotation"
    /\ events[1].data.result = "Deleted annotation"
    /\ DOMAIN task_state.annotations # {}
    /\ ~task_state.rows.all
    /\ MaxRows \in task_state.rows.set
    /\ task_state.height = MaxRows

(***************************************************************************)
(* The notes of the exploration task (grasp/tasks/exploration).            *)
(***************************************************************************)
\* the knowledge graphs with notes of their own
KGs == {"kg1"}

\* the notes the model may write and the notes files may hold
NoteTexts == {"a", "abc"}

\* ExplorationState
ExplorationState(notes, kg_notes) == [notes |-> notes, kg_notes |-> kg_notes]

\* arguments of a note function: kg is Null for the general notes
NoteArgs(kg, num, note) == [kg |-> kg, num |-> num, note |-> note]

\* result of a note function on one list: ok = FALSE when it raised
NoteResult(ok, result, notes) == [ok |-> ok, result |-> result, notes |-> notes]

\* check_note: "" when the note is short enough
CheckNote(note, max_note_length) ==
    IF Len(note) > max_note_length THEN "Note exceeds maximum length" ELSE ""

\* add_note that lets the list grow one entry too far
AddNote_OffByOne(notes, note, max_notes, max_note_length) ==
    IF Len(notes) > max_notes THEN NoteResult(FALSE, "Cannot add more notes", notes)
    ELSE IF CheckNote(note, max_note_length) # ""
    THEN NoteResult(FALSE, CheckNote(note, max_note_length), notes)
    ELSE NoteResult(TRUE, "Added note", Append(notes, note))

\* add_note
AddNote(notes, note, max_notes, max_note_length) ==
    IF Len(notes) >= max_notes THEN NoteResult(FALSE, "Cannot add more notes", notes)
    ELSE IF CheckNote(note, max_note_length) # ""
    THEN NoteResult(FALSE, CheckNote(note, max_note_length), notes)
    ELSE NoteResult(TRUE, "Added note", Append(notes, note))

\* notes.pop(num) for the 0-based index num
Pop(notes, num) == [i \in 1..(Len(notes) - 1) |-> IF i <= num THEN notes[i] ELSE notes[i + 1]]

\* delete_note
DeleteNote(notes, num) ==
    IF num < 1 \/ num > Len(notes) THEN NoteResult(FALSE, "Note number out of range", notes)
    ELSE NoteResult(TRUE, "Deleted note", Pop(notes, num - 1))

\* update_note that writes the note before it checks its length
UpdateNote_CheckAfter(notes, num, note, max_note_length) ==
    IF num < 1 \/ num > Len(notes) THEN NoteResult(FALSE, "Note number out of range", notes)
    ELSE IF CheckNote(note, max_note_length) # ""
    THEN NoteResult(FALSE, CheckNote(note, max_note_length), [notes EXCEPT ![num] = note])
    ELSE NoteResult(TRUE, "Updated note", [notes EXCEPT ![num] = note])

\* update_note
UpdateNote(notes, num, note, max_note_length) ==
    IF num < 1 \/ num > Len(notes) THEN NoteResult(FALSE, "Note number out of range", notes)
    ELSE IF CheckNote(note, max_note_length) # ""
    THEN NoteResult(FALSE, CheckNote(note, max_note_length), notes)
    ELSE NoteResult(TRUE, "Updated note", [notes EXCEPT ![num] = note])

\* show_notes
ShowNotes(notes) ==
    NoteResult(TRUE, IF notes = << >> THEN "No notes available" ELSE "notes", notes)

\* exploration.functions.call_function on the list the call addresses
CallNoteFunction(notes_to_use, fn_name, fn_args, max_notes, max_note_length) ==
    CASE fn_name = "add_note" -> AddNote(notes_to_use, fn_args.note, max_notes, max_note_length)
      [] fn_name = "delete_note" -> DeleteNote(notes_to_use, fn_args.num)
      [] fn_name = "update_note" ->
            UpdateNote(notes_to_use, fn_args.num, fn_args.note, max_note_length)
      [] fn_name = "show_notes" -> ShowNotes(notes_to_use)
      [] OTHER -> NoteResult(FALSE, "Unknown function", notes_to_use)

\* exploration.call_function: the call works on state.notes when kg is None,
\* else on state.kg_notes[kg]; the lists are changed in place
ExplorationCallFunction(c, fn_name, fn_args, kn, state) ==
    IF fn_name = "stop" THEN HandlerResult(TRUE, "Stopped process", kn, state)
    ELSE LET notes_to_use == IF fn_args.kg = Null THEN state.notes
                             ELSE state.kg_notes[fn_args.kg]
             res == CallNoteFunction(notes_to_use, fn_name, fn_args,
                                     c.max_notes, c.max_note_length)
         IN  HandlerResult(res.ok, res.result, kn,
                 IF fn_args.kg = Null THEN [state EXCEPT !.notes = res.notes]
                 ELSE [state EXCEPT !.kg_notes[fn_args.kg] = res.notes])

\* the lists a notes file may hold: load_notes does not check them against
\* the limits of the configuration
RECURSIVE NoteLists(_)
NoteLists(n) ==
    IF n = 0 THEN {<< >>}
    ELSE NoteLists(n - 1) \cup
         {Append(l, t) : l \in {k \in NoteLists(n - 1) : Len(k) = n - 1}, t \in NoteTexts}

\* the numbers the model may pass as num
NoteNums == 0..(MaxNotes + 1)

\* the targets of a note call: the general notes or those of a KG
NoteTargets == KGs \cup {Null}

\* take_notes_from_exploration: the state is built from the loaded notes
NotesInit ==
    /\ task = "exploration"
    /\ cfg \in [max_notes : 1..MaxNotes, max_note_length : 1..MaxNoteLength]
    /\ \E notes \in NoteLists(MaxNotes), kg_notes \in [KGs -> NoteLists(MaxNotes)] :
          task_state = ExplorationState(notes, kg_notes)
    /\ known = {}
    /\ pc = "tools"
    /\ messages = << >>
    /\ num_messages = 0
    /\ last_resp_hash = << >>
    /\ retries = 0
    /\ error = NoError
    /\ response = NoOutcome
    /\ tc_idx = 0
    /\ should_stop = FALSE
    /\ events = << >>
    /\ model_calls = 0
    /\ past = NoPast
    /\ wire = NoWire
    /\ feedback_call = "none"
    /\ ServerIdle

\* exploration.call_function for one tool call: the state after it and its
\* tool event
NoteCall(tool_call) ==
    LET res == ExplorationCallFunction(cfg, tool_call.name, tool_call.args, known, task_state)
    IN  [state |-> res.state,
         event |-> Event("tool", [tool_call EXCEPT !.result = ToolResult(tool_call.name, res)])]

\* the model calls add_note; events keeps the tool event of the latest call
NotesAdd ==
    /\ \E kg \in NoteTargets, note \in NoteTexts :
          LET tool_call == ToolCall("add_note", NoteArgs(kg, 0, note))
          IN  /\ task_state' = NoteCall(tool_call).state
              /\ events' = <<NoteCall(tool_call).event>>
    /\ UNCHANGED <<task, cfg, pc, messages, num_messages, known, last_resp_hash, retries,
                   error, response, tc_idx, should_stop, model_calls, past>>
    /\ UNCHANGED serverVars
    /\ UNCHANGED <<wire, feedback_call>>

\* the model calls delete_note
NotesDelete ==
    /\ \E kg \in NoteTargets, num \in NoteNums :
          LET tool_call == ToolCall("delete_note", NoteArgs(kg, num, ""))
          IN  /\ task_state' = NoteCall(tool_call).state
              /\ events' = <<NoteCall(tool_call).event>>
    /\ UNCHANGED <<task, cfg, pc, messages, num_messages, known, last_resp_hash, retries,
                   error, response, tc_idx, should_stop, model_calls, past>>
    /\ UNCHANGED serverVars
    /\ UNCHANGED <<wire, feedback_call>>

\* the model calls update_note
NotesUpdate ==
    /\ \E kg \in NoteTargets, num \in NoteNums, note \in NoteTexts :
          LET tool_call == ToolCall("update_note", NoteArgs(kg, num, note))
          IN  /\ task_state' = NoteCall(tool_call).state
              /\ events' = <<NoteCall(tool_call).event>>
    /\ UNCHANGED <<task, cfg, pc, messages, num_messages, known, last_resp_hash, retries,
                   error, response, tc_idx, should_stop, model_calls, past>>
    /\ UNCHANGED serverVars
    /\ UNCHANGED <<wire, feedback_call>>

NotesNext == NotesAdd \/ NotesDelete \/ NotesUpdate

NotesSpec == NotesInit /\ [][NotesNext]_vars

\* the notes lists of a state: the general notes and those of every KG
AllNotes(state) == {state.notes} \cup {state.kg_notes[kg] : kg \in KGs}

\* the list has at most max_notes entries of at most max_note_length characters
ListConforms(l) ==
    /\ Len(l) <= cfg.max_notes
    /\ \A i \in DOMAIN l : Len(l[i]) <= cfg.max_note_length

\* every notes list has at most max_notes entries and every note at most
\* max_note_length characters
NotesWithinLimits == \A l \in AllNotes(task_state) : ListConforms(l)

\* the step from list l to list m keeps the limits: the list grows only up to
\* max_notes, and every note that is new in it has at most max_note_length
\* characters
StepConforms(l, m) ==
    /\ Len(m) > Len(l) => Len(m) <= cfg.max_notes
    /\ \A i \in DOMAIN m :
          (\E j \in DOMAIN l : l[j] = m[i]) \/ Len(m[i]) <= cfg.max_note_length

DequeuesEvent(c) ==
    /\ handler[c] = "live_get"
    /\ SocketOpen(c)
    /\ queue[c] # << >>
    /\ Head(queue[c]).kind = "data"
    /\ queue'[c] = Tail(queue[c])

\* an error frame is the last frame of its request
ErrorIsLast(c) ==
    \A i \in DOMAIN frames[c] : frames[c][i].type = "error" => i = Len(frames[c])

ReceivesFrame(c) ==
    \/ handler[c] = "live_recv" /\ handler'[c] = "live_get"
    \/ handler[c] = "live_recv" /\ handler'[c] = "live_recv" /\ frames'[c] # frames[c]
    \/ received'[c] = received[c] + 1

\* the idle checker closes the socket of c
IdleCloses(c) == SocketOpen(c) /\ handler'[c] = handler[c] /\ status'[c] = TryAgainLater

\* C23: the idle checker closes the socket with 1013 only when more than
\* max_idle_time has passed since the last client frame, an open socket is
\* never idle for longer than max_idle_time plus one sleep of the checker,
\* and every client frame resets the idle clock
C23_IdleClose ==
    /\ [][\A c \in Clients : IdleCloses(c) => now - last_active[c] > max_idle_time]_vars
    /\ [](\A c \in Clients :
            SocketOpen(c) => now - last_active[c] <= max_idle_time + PollInterval)
    /\ [][\A c \in Clients : ReceivesFrame(c) => last_active'[c] = now]_vars

C23_Witness ==
    \E c \in Clients :
        /\ handler[c] \in {"live_recv", "live_get", "live_ack", "live_join"}
        /\ status[c] = TryAgainLater
        /\ received[c] >= 1
        /\ last_active[c] > 0
        /\ now - last_active[c] > max_idle_time

\* the last frame sent to c is the output event of its request
OutputSent(c) == frames[c] # << >> /\ frames[c][Len(frames[c])] = Frame("event", GenLen)

\* C26: once the final output event of a request is sent, the handler does
\* not wait for an acknowledgement: the next client frame is a new Request
C26_NoAckAfterOutput == \A c \in Clients : OutputSent(c) => handler[c] # "live_ack"

\* number of event frames sent to c for its request
EventFrames(c) == Cardinality({i \in DOMAIN frames[c] : frames[c][i].type = "event"})

\* C27: the (n+1)-th event frame of a request is sent only after a client
\* frame was received after the n-th: at most one event frame is
\* unacknowledged
C27_OneUnacknowledged ==
    \A c \in Clients :
        /\ EventFrames(c) <= received[c] + 1
        /\ EventFrames(c) = received[c] + 1 => handler[c] \in {"live_ack", "live_join_exit", "live_exit"}

C27_Witness ==
    \E c \in Clients :
        /\ EventFrames(c) = GenLen
        /\ received[c] = GenLen - 1
        /\ handler[c] = "live_ack"

(***************************************************************************)
(* Follow-up requests, serializers, feedback and the end of the loop.      *)
(***************************************************************************)
\* the request has a past and its first model call has not been made
BeforeFirstCall == past.present /\ pc # "setup" /\ model_calls = 0

FullReasoning(content, summary, encrypted_content) ==
    [present |-> TRUE, content |-> content, summary |-> summary,
     encrypted_content |-> encrypted_content]

\* a tool call that has been dispatched
Dispatched(tool_call) == [tool_call EXCEPT !.result = "result"]

\* the Responses of the conversations that are serialized
SerialResponses ==
    { Response(message, reasoning, tool_calls) :
        message \in {Null, "text"},
        reasoning \in {NoReasoning} \cup
            { FullReasoning(content, summary, encrypted_content) :
                content \in {Null, "thought"}, summary \in {Null, "summary"},
                encrypted_content \in {Null, "encrypted"} },
        tool_calls \in {<< >>, <<Dispatched(Search("a")), Dispatched(Answer("b"))>>} }

\* a conversation with the given assistant turns, a feedback between them
RECURSIVE Conversation(_)
Conversation(turns) ==
    IF turns = << >> THEN <<TextMessage("system", "instructions 1"), TextMessage("user", "question")>>
    ELSE Conversation(SubSeq(turns, 1, Len(turns) - 1))
         \o (IF Len(turns) > 1 THEN <<TextMessage("feedback", "feedback")>> ELSE << >>)
         \o <<AssistantMessage(turns[Len(turns)])>>

\* call_model is about to serialize a conversation
SerialInit ==
    /\ \E n \in 1..MaxTurns : \E turns \in [1..n -> SerialResponses] :
          messages = Conversation(turns)
    /\ task = "general-qa"
    /\ cfg = [max_steps |-> 1, feedback |-> FALSE, max_feedbacks |-> 0, know_before_use |-> FALSE]
    /\ pc = "call"
    /\ num_messages = 2
    /\ known = {}
    /\ task_state = NoState
    /\ last_resp_hash = << >>
    /\ retries = 0
    /\ error = NoError
    /\ response = NoOutcome
    /\ tc_idx = 0
    /\ should_stop = FALSE
    /\ events = << >>
    /\ model_calls = 0
    /\ past = NoPast
    /\ wire = NoWire
    /\ feedback_call = "none"
    /\ ServerIdle

\* call_model with the Completions API
SerializeCompletions ==
    /\ wire' = [api |-> "completions", msgs |-> CompletionsApiMessages(messages)]
    /\ UNCHANGED <<task, cfg, pc, messages, num_messages, known, task_state, last_resp_hash,
                   retries, error, response, tc_idx, should_stop, events, model_calls, past,
                   feedback_call>>
    /\ UNCHANGED serverVars

\* call_model with the Responses API
SerializeResponses ==
    /\ wire' = [api |-> "responses", msgs |-> ResponsesApiMessages(messages)]
    /\ UNCHANGED <<task, cfg, pc, messages, num_messages, known, task_state, last_resp_hash,
                   retries, error, response, tc_idx, should_stop, events, model_calls, past,
                   feedback_call>>
    /\ UNCHANGED serverVars

SerialNext == SerializeCompletions \/ SerializeResponses

SerialSpec == SerialInit /\ [][SerialNext]_vars

\* the wire messages of message i of the conversation: those the serializer
\* appended for it
WireOf(i) ==
    LET before == IF wire.api = "completions"
                  THEN Len(CompletionsApiMessages(SubSeq(messages, 1, i - 1)))
                  ELSE Len(ResponsesApiMessages(SubSeq(messages, 1, i - 1)))
        upto == IF wire.api = "completions"
                THEN Len(CompletionsApiMessages(SubSeq(messages, 1, i)))
                ELSE Len(ResponsesApiMessages(SubSeq(messages, 1, i)))
    IN  SubSeq(wire.msgs, before + 1, upto)

\* assistant turn i read back from the wire
ReadBack(i) ==
    IF wire.api = "completions" THEN FromCompletions(WireOf(i)) ELSE FromResponses(WireOf(i))

\* the assistant turns of the conversation
Turns == {i \in DOMAIN messages : messages[i].is_response}

WithoutSummary(r) ==
    [r EXCEPT !.reasoning.summary = Null, !.reasoning.encrypted_content = Null]

FeedbackCall(outcomes) == pc = "tools" /\ pc' # "tools" /\ feedback_call' \in outcomes

\* a step from the head of the loop makes the next model call when the step
\* budget is not used up, and leaves the loop without a call when it is
BudgetDecides ==
    pc = "loop" /\ pc' # "loop" =>
        IF Len(messages) - num_messages < cfg.max_steps
        THEN pc' = "called" /\ model_calls' = model_calls + 1
        ELSE pc' = "finish" /\ model_calls' = model_calls

\* C28: a feedback that is returned is appended as a feedback message and
\* emitted as a feedback event; with status done the loop ends without
\* error, otherwise retries grows by one, the loop-detection hash is cleared
\* and the loop goes on: the next model call is made if the step budget allows
C28_FeedbackApplied ==
    /\ [][FeedbackCall({"done", "refine", "retry"}) =>
            /\ messages' = Append(messages,
                              TextMessage("feedback", FormatFeedback(feedback_call')))
            /\ events' = Append(events, Event("feedback", feedback_call'))
            /\ error' = NoError
            /\ IF feedback_call' = "done"
               THEN pc' = "finish" /\ retries' = retries
               ELSE /\ retries' = retries + 1
                    /\ last_resp_hash' = << >>
                    /\ pc' = "loop"]_vars
    /\ [][BudgetDecides]_vars

C28_Witness ==
    /\ pc = "called"
    /\ feedback_call = "refine"
    /\ retries = 1
    /\ LastMessage.role = "feedback"
    /\ events[Len(events)] = Event("feedback", "refine")

\* C29: whenever the model call of the Feedback Engine raises an exception,
\* a Timeout included, the loop ends with error reason feedback and no
\* feedback message is appended
C29_FeedbackError ==
    [][FeedbackCall({"exception", "timeout"}) =>
          /\ error' = Error("feedback")
          /\ pc' = "finish"
          /\ messages' = messages]_vars

\* the step leaves the tool calls of a turn behind, feedback is disabled
TurnEnds == pc = "tools" /\ pc' # "tools" /\ ~cfg.feedback

\* the turn has at least one tool call and none of its calls is terminal
GoesOn ==
    /\ TurnCalls # << >>
    /\ \A i \in DOMAIN TurnCalls : ~TaskDone(task, TurnCalls[i].name)

\* C30: with feedback disabled and no error, another model call follows an
\* assistant turn exactly if the turn has a tool call, none of its calls is
\* terminal for the task and the step budget is not used up; a turn without
\* tool calls ends the loop, and no tool call of general-qa ends it
C30_ContinueIffCalls ==
    /\ [][TurnEnds =>
            /\ error' = NoError
            /\ pc' = IF GoesOn THEN "loop" ELSE "finish"
            /\ model_calls' = model_calls]_vars
    /\ [][BudgetDecides]_vars
    /\ [][TurnEnds /\ TurnCalls = << >> => pc' = "finish"]_vars
    /\ [][TurnEnds /\ task = "general-qa" /\ TurnCalls # << >> => pc' = "loop"]_vars

C30_Witness ==
    /\ pc = "called"
    /\ ~cfg.feedback
    /\ task = "general-qa"
    /\ model_calls = 3
    /\ LastMessage.role = "assistant"
    /\ Len(LastMessage.resp.tool_calls) = 2
    /\ error = NoError

\* C31: the step count of a request (len(messages) - num_messages, assistant
\* turns and feedback messages alike) never exceeds max_steps
C31_StepsBounded == StepCount(messages, num_messages) <= cfg.max_steps

(***************************************************************************)
(* Output extraction (tasks/sparql_qa output, tasks/wikidata_query_logs    *)
(* output) applied to bounded conversations.                               *)
(***************************************************************************)
Cancel(id) == ToolCall("cancel", Args(Entity("short", id), 0, 0))
Execute(id) == ToolCall("execute", Args(Entity("short", id), 0, 0))

\* what the assistant writes in the turns outputs are extracted from: plain
\* text, or a call written into the text as a tag or a code block
OutputTexts ==
    { "text",
      ToolCallTag(JsonText([name |-> "answer", schema |-> "answer", id |-> "a"])),
      ToolCallTag(JsonText([name |-> Null, schema |-> "answer", id |-> "a"])),
      JsonBlock(JsonText([name |-> "cancel", schema |-> "cancel", id |-> "b"])),
      JsonBlock(JsonText([name |-> Null, schema |-> "cancel", id |-> "b"])),
      ToolCallTag("not json")
          \o JsonBlock(JsonText([name |-> "answer", schema |-> "answer", id |-> "b"])),
      SparqlBlock("a") }

\* the tool calls of those turns, dispatched
OutputCalls ==
    { <<Dispatched(Answer("a"))>>,
      <<Dispatched(Cancel("a"))>>,
      <<Dispatched(Answer("a")), Dispatched(Cancel("b"))>>,
      <<Dispatched(Cancel("a")), Dispatched(Answer("b"))>>,
      <<Dispatched(Search("a")), Dispatched(Answer("b"))>>,
      <<Dispatched(Cancel("b")), Dispatched(Search("a"))>>,
      <<Dispatched(Search("a"))>>,
      <<Dispatched(Execute("a"))>> }

OutputResponses ==
    { Response(message, NoReasoning, << >>) : message \in OutputTexts }
    \cup { Response(Null, NoReasoning, tool_calls) : tool_calls \in OutputCalls }
    \cup { Response(SparqlBlock("b"), NoReasoning, <<Dispatched(Execute("a"))>>) }

\* a conversation with the given assistant turns; turn i is followed by the
\* feedback message feedbacks[i] unless that is Null
RECURSIVE OutputConversation(_, _)
OutputConversation(turns, feedbacks) ==
    IF turns = << >> THEN <<TextMessage("system", "instructions 1"), TextMessage("user", "question")>>
    ELSE LET n == Len(turns)
         IN  OutputConversation(SubSeq(turns, 1, n - 1), SubSeq(feedbacks, 1, n - 1))
             \o <<AssistantMessage(turns[n])>>
             \o (IF feedbacks[n] = Null THEN << >>
                 ELSE <<TextMessage("feedback", FormatFeedback(feedbacks[n]))>>)

\* the feedback messages of the conversation are such as the loop appends:
\* after an assistant turn that stops the loop and has an output, for a task
\* with feedback prompts, and nothing follows a feedback with status done
LoopFeedbacks(t, msgs) ==
    \A k \in DOMAIN msgs :
        msgs[k].role = "feedback" =>
            /\ HasFeedbackPrompts(t)
            /\ LET calls == msgs[k - 1].resp.tool_calls
               IN  calls = << >> \/ \E j \in DOMAIN calls : TaskDone(t, calls[j].name)
            /\ TaskOutput(t, SubSeq(msgs, 1, k - 1), NoState) # NoOutput
            /\ msgs[k].content = FormatFeedback("done") => k = Len(msgs)

\* the loop of a request has ended and the output is about to be extracted
OutputInit ==
    /\ \E n \in 1..MaxTurns :
          \E turns \in [1..n -> OutputResponses], feedbacks \in [1..n -> {Null, "retry", "done"}] :
              messages = OutputConversation(turns, feedbacks)
    /\ task \in {"sparql-qa", "wikidata-query-logs"}
    /\ LoopFeedbacks(task, messages)
    /\ cfg = [max_steps |-> MaxTurns, feedback |-> TRUE, max_feedbacks |-> MaxTurns,
              know_before_use |-> FALSE]
    /\ pc = "finish"
    /\ num_messages = 2
    /\ known = {}
    /\ task_state = NoState
    /\ last_resp_hash = << >>
    /\ retries = 0
    /\ error = NoError
    /\ response = NoOutcome
    /\ tc_idx = 0
    /\ should_stop = TRUE
    /\ events = << >>
    /\ model_calls = 0
    /\ past = NoPast
    /\ wire = NoWire
    /\ feedback_call = "none"
    /\ ServerIdle

OutputSpec == OutputInit /\ [][Finish]_vars

\* the output of the output event
Extracted == events[Len(events)].data.output

\* the output has been extracted from a conversation of the task
ExtractedFor(t) == task = t /\ pc = "done" /\ events # << >>

\* the answer and cancel calls of the assistant turns after message lo, as
\* pairs of the index of the message and the index of the call
DecisiveCalls(lo) ==
    {p \in (lo + 1..Len(messages)) \X (1..2) :
        /\ messages[p[1]].is_response
        /\ p[2] \in DOMAIN messages[p[1]].resp.tool_calls
        /\ messages[p[1]].resp.tool_calls[p[2]].name \in {"answer", "cancel"}}

\* the most recent of them
MostRecent(calls) ==
    LET p == CHOOSE p \in calls :
                 \A q \in calls : q[1] < p[1] \/ (q[1] = p[1] /\ q[2] <= p[2])
    IN  messages[p[1]].resp.tool_calls[p[2]]

\* the output is that of the call
DeterminedBy(call) == Extracted.type = call.name /\ Extracted.call = call

\* the last feedback message that is not the last message of the
\* conversation (in the comparison of the code: that differs from it), 0 if
\* there is none
LastIntermediateFeedback ==
    LET fbs == {i \in DOMAIN messages :
                   messages[i].role = "feedback" /\ messages[i] # messages[Len(messages)]}
    IN  IF fbs = {} THEN 0 ELSE CHOOSE i \in fbs : \A k \in fbs : k <= i

\* C32 as stated: for sparql-qa, whenever an assistant turn of the
\* conversation has an answer or cancel call, the output is that of the most
\* recent such call
C32_Original ==
    ExtractedFor("sparql-qa") /\ DecisiveCalls(0) # {}
        => DeterminedBy(MostRecent(DecisiveCalls(0)))

\* C32: for sparql-qa, whenever an assistant turn after the last
\* intermediate feedback message has an answer or cancel call, the output has
\* the type and the arguments of the most recent such call
C32_MostRecentCall ==
    ExtractedFor("sparql-qa") /\ DecisiveCalls(LastIntermediateFeedback) # {}
        => DeterminedBy(MostRecent(DecisiveCalls(LastIntermediateFeedback)))

C32_Witness ==
    /\ ExtractedFor("sparql-qa")
    /\ LastIntermediateFeedback = 4
    /\ DecisiveCalls(0) \ DecisiveCalls(4) # {}
    /\ Cardinality(DecisiveCalls(4)) = 2
    /\ Extracted.type = "cancel"
    /\ Extracted.call = Dispatched(Cancel("b"))

\* the calls of the given name in the last message of the conversation
FinalCalls(name) ==
    {j \in DOMAIN LastMessage.resp.tool_calls : LastMessage.resp.tool_calls[j].name = name}

\* C33: for wikidata-query-logs, when the final assistant turn has an answer
\* call (and no cancel call) the output has type answer with the arguments of
\* that call, and when it has a cancel call (and no answer call) the output
\* has type cancel with its arguments, whatever other calls the turn has
C33_WdqlOutput ==
    ExtractedFor("wikidata-query-logs") /\ LastMessage.is_response =>
        /\ FinalCalls("answer") # {} /\ FinalCalls("cancel") = {} =>
              \E j \in FinalCalls("answer") :
                  DeterminedBy(LastMessage.resp.tool_calls[j])
        /\ FinalCalls("cancel") # {} /\ FinalCalls("answer") = {} =>
              \E j \in FinalCalls("cancel") :
                  DeterminedBy(LastMessage.resp.tool_calls[j])

\* the last assistant message of the conversation, as get_answer_or_cancel
\* keeps it
LastAssistantText == ScanAnswerOrCancel(messages, Len(messages)).last_message

\* the text holds a tag or json block whose content validates against the
\* schema, as a full call or as the bare arguments
Validates(message, schema) ==
    /\ message # Null
    /\ RawToolCall(message) # Null
    /\ ValidCalls(RawToolCall(message), schema)
           \cup ValidArguments(RawToolCall(message), schema) # {}

\* the output adopts the block of the text as a call of the schema
Adopted(message, schema) ==
    /\ Extracted.type = schema
    /\ \E doc \in ValidCalls(RawToolCall(message), schema)
                     \cup ValidArguments(RawToolCall(message), schema) :
           Extracted.call.args.entity.id = doc.id

\* C34: for sparql-qa, when no assistant turn has an answer or cancel call
\* and the final assistant message has a tool_call tag or json block that
\* validates against the answer schema or the cancel schema, as a full call
\* or as the bare arguments, the block becomes the answer or the cancel of
\* the output
C34_FencedCallAdopted ==
    ExtractedFor("sparql-qa") /\ DecisiveCalls(0) = {} =>
        /\ Validates(LastAssistantText, "answer") => Adopted(LastAssistantText, "answer")
        /\ ~Validates(LastAssistantText, "answer") /\ Validates(LastAssistantText, "cancel")
               => Adopted(LastAssistantText, "cancel")

(***************************************************************************)
(* The AnnotationState of a table given with context rows (cea.py          *)
(* Table.trim, AnnotationState): the input event keeps the table of the    *)
(* request, the annotations are made on the trimmed table.                 *)
(***************************************************************************)
\* the tables of the requests: rows and columns to annotate lie within the
\* table
Tables ==
    { Table(Rows(height), width, rows, cols) :
        height \in 0..(MaxRows + 1), width \in 1..MaxCols,
        rows \in Filters(MaxRows), cols \in Filters(MaxCols - 1) }

InputTables ==
    { t \in Tables : /\ t.rows.set \subseteq 0..(Len(t.data) - 1)
                     /\ t.cols.set \subseteq 0..(t.width - 1) }

\* the entities the model annotates with: two spellings of a known IRI and
\* an IRI that is not known
TableEntities == {Entity("short", "a"), Entity("full", "a"), Entity("short", "b")}

\* a cea request arrives with its table and context_rows
TableInit ==
    /\ task = "cea"
    /\ cfg = [max_steps |-> 1, feedback |-> FALSE, max_feedbacks |-> 0, know_before_use |-> TRUE]
    /\ \E table \in InputTables, context_rows \in {NoContext} \cup {Context(n) : n \in 0..(MaxRows - 1)} :
          events = <<Event("input", [table |-> table, context_rows |-> context_rows])>>
    /\ task_state = NoState
    /\ known = {"a"}
    /\ pc = "setup"
    /\ messages = << >>
    /\ num_messages = 0
    /\ last_resp_hash = << >>
    /\ retries = 0
    /\ error = NoError
    /\ response = NoOutcome
    /\ tc_idx = 0
    /\ should_stop = FALSE
    /\ model_calls = 0
    /\ past = NoPast
    /\ wire = NoWire
    /\ feedback_call = "none"
    /\ ServerIdle

\* input_and_state: AnnotationState(table, context_rows)
TableSetup ==
    /\ pc = "setup"
    /\ LET new == NewAnnotationState(events[1].data.table, events[1].data.context_rows)
       IN  /\ task_state' = new.state
           /\ pc' = IF new.raised THEN "raised" ELSE "tools"
    /\ UNCHANGED <<task, cfg, messages, num_messages, known, last_resp_hash, retries,
                   error, response, tc_idx, should_stop, events, model_calls, past>>
    /\ UNCHANGED serverVars
    /\ UNCHANGED <<wire, feedback_call>>

\* the model calls annotate; events keeps the input event and the tool event
\* of the latest call
TableAnnotateCall ==
    /\ pc = "tools"
    /\ \E row \in Coords(MaxRows + 1), column \in Coords(MaxCols), entity \in TableEntities :
          LET tool_call == ToolCall("annotate", Args(entity, row, column))
          IN  /\ task_state' = CeaCall(tool_call).state
              /\ events' = <<events[1], CeaCall(tool_call).event>>
    /\ UNCHANGED <<task, cfg, pc, messages, num_messages, known, last_resp_hash, retries,
                   error, response, tc_idx, should_stop, model_calls, past>>
    /\ UNCHANGED serverVars
    /\ UNCHANGED <<wire, feedback_call>>

\* the model calls delete_annotation
TableDeleteCall ==
    /\ pc = "tools"
    /\ \E row \in Coords(MaxRows + 1), column \in Coords(MaxCols) :
          /\ task_state' = CeaCall(Delete(row, column)).state
          /\ events' = <<events[1], CeaCall(Delete(row, column)).event>>
    /\ UNCHANGED <<task, cfg, pc, messages, num_messages, known, last_resp_hash, retries,
                   error, response, tc_idx, should_stop, model_calls, past>>
    /\ UNCHANGED serverVars
    /\ UNCHANGED <<wire, feedback_call>>

TableNext == TableSetup \/ TableAnnotateCall \/ TableDeleteCall

TableSpec == TableInit /\ [][TableNext]_vars

\* the tool call of the step, with its result, and the cell it names
CalledTool == events'[Len(events')].data
CalledCell == <<CalledTool.args.row, CalledTool.args.column>>

\* the call of the step is an annotate that the claim counts as accepted:
\* the cell lies in the table and is permitted, the IRI is known
AnnotateAccepted ==
    /\ CalledTool.name = "annotate"
    /\ CellAllowed(task_state, CalledCell)
    /\ CalledTool.args.entity.id \in known

\* the call of the step is a delete_annotation of an annotated cell that may
\* be written
DeleteAccepted ==
    /\ CalledTool.name = "delete_annotation"
    /\ CellAllowed(task_state, CalledCell)
    /\ CalledCell \in DOMAIN task_state.annotations

\* the annotations of all cells but the given one stay as they are
OthersUnchanged(cell) ==
    /\ (DOMAIN task_state'.annotations) \ {cell} = (DOMAIN task_state.annotations) \ {cell}
    /\ \A c \in (DOMAIN task_state.annotations) \ {cell} :
           task_state'.annotations[c] = task_state.annotations[c]

\* C35: an accepted annotate(row, col, e) leaves the cell annotated with
\* exactly e, reports the annotation it replaced and changes no other cell;
\* a rejected annotate or delete_annotation leaves the annotations unchanged
C35_AnnotateFrame ==
    [][pc = "tools" =>
          /\ AnnotateAccepted =>
                /\ CalledCell \in DOMAIN task_state'.annotations
                /\ task_state'.annotations[CalledCell] = CalledTool.args.entity
                /\ OthersUnchanged(CalledCell)
                /\ CalledTool.result =
                      IF CalledCell \in DOMAIN task_state.annotations
                      THEN "Updated annotation from "
                           \o task_state.annotations[CalledCell].form \o ":"
                           \o task_state.annotations[CalledCell].id
                      ELSE "Annotated cell"
          /\ ~AnnotateAccepted /\ ~DeleteAccepted =>
                /\ task_state'.annotations = task_state.annotations
                /\ CalledTool.result \notin {"Annotated cell", "Deleted annotation"}
                /\ CalledTool.result # "Updated annotation from short:a"
                /\ CalledTool.result # "Updated annotation from full:a"]_vars

C35_Witness ==
    /\ pc = "tools"
    /\ Len(events) = 2
    /\ events[2].data.name = "annotate"
    /\ events[2].data.args.entity = Entity("full", "a")
    /\ events[2].data.result = "Updated annotation from short:a"
    /\ task_state.annotations[<<events[2].data.args.row, 0>>] = Entity("full", "a")
    /\ Cardinality(DOMAIN task_state.annotations) = 2
    /\ task_state.offset > 0

\* the table and context_rows of the request
InputTable == events[1].data.table

\* C36: for every table, every set of allowed rows within the table and
\* every context size, the state is built, all allowed rows lie inside the
\* trimmed table, and every annotation is emitted with row r + offset, which
\* is the index of the same data row in the original table and one of the
\* original allowed rows
C36_TrimKeepsRows ==
    pc # "setup" =>
        /\ pc # "raised"
        /\ ~InputTable.rows.all =>
              \A r \in InputTable.rows.set :
                  r - task_state.offset \in 0..(task_state.height - 1)
        /\ \A cell \in DOMAIN task_state.annotations :
              \E a \in CeaOutput(task_state).annotations :
                  /\ a.row = cell[1] + task_state.offset
                  /\ a.column = cell[2]
        /\ \A a \in CeaOutput(task_state).annotations :
              /\ a.row \in 0..(Len(InputTable.data) - 1)
              /\ Clean(InputTable.data[a.row + 1])
                     = task_state.data[a.row - task_state.offset + 1]
              /\ ~InputTable.rows.all => a.row \in InputTable.rows.set

\* the note call of the step, with its result, and the list it addresses
CalledNote == events'[1].data
AddressedNotes ==
    IF CalledNote.args.kg = Null THEN task_state.notes
    ELSE task_state.kg_notes[CalledNote.args.kg]

\* the call of the step is one the claim counts as rejected
NoteRejected ==
    \/ CalledNote.name = "add_note" /\ Len(AddressedNotes) >= cfg.max_notes
    \/ /\ CalledNote.name \in {"add_note", "update_note"}
       /\ Len(CalledNote.args.note) > cfg.max_note_length
    \/ /\ CalledNote.name \in {"delete_note", "update_note"}
       /\ CalledNote.args.num \notin 1..Len(AddressedNotes)

\* C37: a rejected note operation (add_note on a full list, add_note or
\* update_note with a note that is too long, delete_note or update_note with
\* a number outside 1..len) returns an error and changes no notes list
C37_RejectedKeepsNotes ==
    [][NoteRejected =>
          /\ task_state' = task_state
          /\ CalledNote.result \notin {"Added note", "Deleted note", "Updated note"}]_vars

C37_Witness ==
    /\ events # << >>
    /\ events[1].data.name = "update_note"
    /\ events[1].data.args.kg = "kg1"
    /\ events[1].data.args.num = 1
    /\ events[1].data.result = "Call to function update_note returned an error:\n"
                                 \o "Note exceeds maximum length"
    /\ Len(task_state.kg_notes["kg1"]) = 2
    /\ Len(task_state.kg_notes["kg1"][1]) <= cfg.max_note_length
    /\ task_state.notes # << >>

(***************************************************************************)
(* The connection counter (server.py 159-262, 403-420).                    *)
(***************************************************************************)
\* admitted /run requests and /live connections whose handler has not
\* finished
AdmittedHandlers == {c \in Clients : handler[c] # "out"}

\* C38: active_connections equals the number of admitted handlers that
\* have not finished; it is never negative and never above max_connections
C38_CounterExact ==
    /\ active_connections = Cardinality(AdmittedHandlers)
    /\ active_connections >= 0
    /\ active_connections <= MaxConnections

\* one request has ended with 504 and its slot is free again, while the
\* handler of a lost connection waits for its worker before it leaves
C38_Witness ==
    \E c, d \in Clients :
        /\ c # d
        /\ handler[c] = "out" /\ status[c] = TimeLimit
        /\ handler[d] = "live_join_exit"
        /\ active_connections = 1

(***************************************************************************)
(* One worker per /live connection (server.py 318-356, 361-408).           *)
(***************************************************************************)
\* the worker thread of the request of c has not ended
WorkerRunning(c) == worker[c] \in {"gen", "put", "finally"}

\* C39: while the handler of a /live connection waits for the next Request
\* (or leaves) no worker of the connection is running and nothing of the
\* previous request is left to send; every event queued or sent while a
\* request is served was yielded by the worker of that request
C39_OneWorker ==
    \A c \in Clients :
        /\ handler[c] \in {"live_recv", "live_exit"} =>
              ~WorkerRunning(c) /\ worker[c] # "finished" /\ queue[c] = << >>
        /\ \A i \in DOMAIN queue[c] :
              queue[c][i].kind = "data" =>
                  queue[c][i].payload \in (Len(Forwarded(c)) + 1)..generated[c]
        /\ \A i \in DOMAIN frames[c] :
              frames[c][i].type = "event" => frames[c][i].n <= generated[c]

\* the request was cancelled after its first event while the worker had run
\* to the end of the generation: the handler is ready for the next Request,
\* the worker has ended and the events it had queued are gone
C39_Witness ==
    \E c \in Clients :
        /\ handler[c] = "live_recv"
        /\ worker[c] = "none"
        /\ cancel_at[c] = 1
        /\ generated[c] = GenLen
        /\ Len(Forwarded(c)) = 1
        /\ queue[c] = << >>

(***************************************************************************)
(* The end of a /live request (server.py 322-356, 361-408).                *)
(***************************************************************************)
\* the model and tool calls of the worker return, the event loop runs the
\* puts of the worker, and the handler is resumed when the item or the
\* producer it awaits is there
LiveFairSpec ==
    /\ LiveSpec
    /\ \A c \in LiveClients :
          /\ WF_vars(LiveWorkerGen(c))
          /\ WF_vars(LiveWorkerPut(c))
          /\ WF_vars(LiveWorkerFinally(c))
          /\ WF_vars(LiveGet(c))
          /\ WF_vars(LiveSendFails(c))
          /\ WF_vars(LiveJoin(c))

\* the cancel of the client has been received and the handler has left the
\* forwarding loop
CancelReceived(c) == cancel_at[c] > 0 /\ handler[c] = "live_join"

\* the next item the handler takes is an event that comes after the
\* generation time is used up
TimeBreach(c) ==
    /\ handler[c] = "live_get"
    /\ queue[c] # << >>
    /\ Head(queue[c]).kind = "data"
    /\ now - start_time[c] > max_generation_time

\* the next item the handler takes is the error of the generation
GenerationError(c) ==
    /\ handler[c] = "live_get"
    /\ queue[c] # << >>
    /\ Head(queue[c]).kind = "error"

\* the request of c is being ended
Ending(c) == CancelReceived(c) \/ TimeBreach(c) \/ GenerationError(c)

\* C40 as stated: after a cancel, a time breach or a generation error the
\* worker ends and the handler waits for the next Request
C40_Original ==
    \A c \in LiveClients :
        Ending(c) ~> (worker[c] = "none" /\ handler[c] = "live_recv")

\* C40: after a cancel, a time breach or a generation error the worker ends
\* and the handler gets past its wait for the worker: it waits for the next
\* Request, or leaves when the connection is lost
C40_NoDeadlock ==
    \A c \in LiveClients :
        Ending(c) ~> (worker[c] = "none" /\ handler[c] \in {"live_recv", "live_exit"})

\* the error frame of a time breach or a generation error was sent while
\* the worker had yielded events, and the handler waits for the next Request
C40_Witness ==
    \E c \in LiveClients :
        /\ handler[c] = "live_recv"
        /\ worker[c] = "none"
        /\ cancel_at[c] = 0
        /\ generated[c] >= 2
        /\ frames[c] # << >>
        /\ frames[c][Len(frames[c])].type = "error"

====
